---------------------------- MODULE Spec2Model ----------------------------
(***************************************************************************)
(* Model of the RSK attestation copilot: the tool handlers                 *)
(* (src/src/tools/handlers.ts), AttestationService (src/unnamed/part_008)  *)
(* and GraphQLService (src/unnamed/part_007).                              *)
(*                                                                         *)
(* Four specifications share the variables:                                *)
(*   SpecPure   the record conversions, the validity computation and the   *)
(*              sanitisation of log data (src/unnamed/part_003), applied   *)
(*              to inputs drawn from bounded sets;                         *)
(*   SpecIndex  one index (GraphQL) request at a time: query building,     *)
(*              deadline timer, fetch, response checks, normalisation;     *)
(*   Spec       the ledger-backed handlers (issue, verify, create-schema,  *)
(*              revoke) running as interleaved calls against one ledger;   *)
(*   SpecServer the server's tool-call handler (src/unnamed/part_004):     *)
(*              dispatch by tool name, argument validation, the response.  *)
(*                                                                         *)
(* JavaScript numbers are IEEE doubles with a 53-bit significand.  The     *)
(* model keeps the shape of that arithmetic with a significand of          *)
(* MantissaBits bits, so that MAX_SAFE_INTEGER = 2^MantissaBits - 1 and    *)
(* integers above it are rounded to the nearest representable value.       *)
(***************************************************************************)
EXTENDS Integers, Sequences, FiniteSets, TLC

VARIABLES
  pure,           \* SpecPure: the drawn input and what the conversion returned
  privateKeySet,  \* whether process.env.PRIVATE_KEY is set
  iq,             \* SpecIndex: the index call in progress, or the last one
  now,            \* Spec: the time in whole seconds (block time and clock)
  schemas,        \* Spec: the schema identifiers registered on the ledger
  attestations,   \* Spec: the ledger's record for each identifier
  calls,          \* Spec: each handler call in progress or just finished
  hist,           \* Spec: what earlier calls returned (history)
  server          \* SpecServer: the tool call the server is answering

vars ==
  <<pure, privateKeySet, iq, now, schemas, attestations, calls, hist, server>>

\* The variables of the ledger-backed handlers, those of the index client,
\* and the one of the conversions.
ledgerVars == <<now, schemas, attestations, calls, hist>>

(***************************************************************************)
(* Numbers                                                                 *)
(***************************************************************************)
MantissaBits == 3

RECURSIVE Pow2(_)
Pow2(n) == IF n = 0 THEN 1 ELSE 2 * Pow2(n - 1)

\* Number.MAX_SAFE_INTEGER
MAX_SAFE_INTEGER == Pow2(MantissaBits) - 1

\* The spacing of the representable numbers around n >= 0.
RECURSIVE Ulp(_)
Ulp(n) == IF n < Pow2(MantissaBits) THEN 1 ELSE 2 * Ulp(n \div 2)

\* The double nearest to the non-negative integer n, ties to the even
\* significand: what Number(bigint) and the digits of parseInt produce.
ToDouble(n) ==
  LET u == Ulp(n)
      q == n \div u
      r == n % u
  IN  IF 2 * r < u THEN q * u
      ELSE IF 2 * r > u THEN (q + 1) * u
      ELSE IF q % 2 = 0 THEN q * u ELSE (q + 1) * u

\* The value parseInt returns for a string with no leading digit.
NaN == 0 - 1

isNaN(x) == x = NaN

Digits == <<"0", "1", "2", "3", "4", "5", "6", "7", "8", "9">>

IsDigit(c) == \E i \in 1..10 : Digits[i] = c

DigitVal(c) == (CHOOSE i \in 1..10 : Digits[i] = c) - 1

\* The length of the longest prefix of s made of digits.
RECURSIVE DigitPrefixLen(_)
DigitPrefixLen(s) ==
  IF s = <<>> \/ ~IsDigit(Head(s)) THEN 0 ELSE 1 + DigitPrefixLen(Tail(s))

\* The exact integer the digit sequence s denotes in base 10.
RECURSIVE DigitsValue(_)
DigitsValue(s) ==
  IF s = <<>> THEN 0
  ELSE 10 * DigitsValue(SubSeq(s, 1, Len(s) - 1)) + DigitVal(s[Len(s)])

\* parseInt(s, 10) for a string of digits and other characters: the digits
\* before the first other character, as a double; NaN when there is none.
parseInt(s) ==
  LET n == DigitPrefixLen(s)
  IN  IF n = 0 THEN NaN ELSE ToDouble(DigitsValue(SubSeq(s, 1, n)))


(***************************************************************************)
(* Values shared by the services                                           *)
(***************************************************************************)
\* '0x0000...0000' (64 zeros): the identifier of a record that does not exist.
ZERO_UID == "0x00"

\* null / undefined
NULL == [null |-> TRUE]

\* A promise's outcome: a value, or a thrown Error with its message.  A
\* message is the sequence of the pieces it is concatenated from.
Return(v) == [threw |-> FALSE, value |-> v]

Throw(m) == [threw |-> TRUE, isError |-> TRUE, message |-> m]

\* A caught value: an Error with its message, or a value that is no Error.
Err(m) == [isError |-> TRUE, message |-> m]

\* error instanceof Error ? error.message : fallback
ErrorMessageDropped(e, fallback) == <<fallback>>

ErrorMessage(e, fallback) == IF e.isError THEN e.message ELSE <<fallback>>

(***************************************************************************)
(* Timestamp normalisation                                                 *)
(***************************************************************************)
\* t <= Number.MAX_SAFE_INTEGER ? Number(t) : Number.MAX_SAFE_INTEGER, for
\* the bigint t of a ledger record.
NormalizeBigIntWrap(t) == ToDouble(t) % (MAX_SAFE_INTEGER + 1)

NormalizeBigInt(t) ==
  IF t <= MAX_SAFE_INTEGER THEN ToDouble(t) ELSE MAX_SAFE_INTEGER

\* x <= Number.MAX_SAFE_INTEGER ? x : Number.MAX_SAFE_INTEGER, for the
\* number x that parseInt returned.
NormalizeNumberWrap(x) == x % (MAX_SAFE_INTEGER + 1)

NormalizeNumber(x) == IF x <= MAX_SAFE_INTEGER THEN x ELSE MAX_SAFE_INTEGER

\* The AttestationData that verifyAttestation builds from the record the
\* ledger returned.
ToAttestationData(a) ==
  [uid            |-> a.uid,
   schema         |-> a.schema,
   revocable      |-> a.revocable,
   time           |-> NormalizeBigInt(a.time),
   expirationTime |-> NormalizeBigInt(a.expirationTime),
   revocationTime |-> NormalizeBigInt(a.revocationTime)]

\* The callback of response.data.attestations.map, and the same lines of
\* queryAttestationsByUID: the record of the index as AttestationData, or the
\* error thrown for a time that does not parse.
TransformGql(g) ==
  LET timeCreated    == parseInt(g.timeCreated)
      expirationTime == parseInt(g.expirationTime)
      revocationTime == parseInt(g.revocationTime)
  IN  IF isNaN(timeCreated) \/ isNaN(expirationTime) \/ isNaN(revocationTime)
      THEN Throw(<<"Invalid time value in attestation data for UID ", g.id>>)
      ELSE Return([uid            |-> g.id,
                   schema         |-> g.schemaId,
                   revocable      |-> g.revocable,
                   time           |-> NormalizeNumber(timeCreated),
                   expirationTime |-> NormalizeNumber(expirationTime),
                   revocationTime |-> NormalizeNumber(revocationTime)])

(***************************************************************************)
(* handleVerifyAttestation, after the service call                         *)
(***************************************************************************)
\* Math.floor(Date.now() / 1000)
UnixSecondsRounded(ms) == (ms + 500) \div 1000

\* The second read once, when the process started, and kept.
UnixSecondsAtStart(ms) == 1

UnixSeconds(ms) == ms \div 1000

\* attestation.expirationTime > 0 && attestation.expirationTime < now
IsExpiredInclusive(attestation, nowSec) ==
  attestation.expirationTime > 0 /\ attestation.expirationTime <= nowSec

IsExpired(attestation, nowSec) ==
  attestation.expirationTime > 0 /\ attestation.expirationTime < nowSec

\* The handler's result if it took isRevoked from the expiry.
VerifyOutcomeRevokedByExpiry(attestation, dateNow) ==
  IF attestation = NULL
  THEN [success |-> FALSE, message |-> <<"Attestation not found">>,
        data |-> NULL]
  ELSE LET isValid   == attestation.revocationTime = 0
           isExpired == IsExpired(attestation, UnixSeconds(dateNow))
       IN  [success |-> TRUE,
            message |-> IF isValid /\ ~isExpired
                        THEN <<"Attestation is valid">>
                        ELSE <<"Attestation is invalid/expired">>,
            data    |-> attestation @@
                        [isValid   |-> isValid /\ ~isExpired,
                         isRevoked |-> isExpired,
                         isExpired |-> isExpired]]

\* The handler's result for what verifyAttestation resolved to: null, or the
\* AttestationData.
VerifyOutcome(attestation, dateNow) ==
  IF attestation = NULL
  THEN [success |-> FALSE, message |-> <<"Attestation not found">>,
        data |-> NULL]
  ELSE LET isValid   == attestation.revocationTime = 0
           isExpired == IsExpired(attestation, UnixSeconds(dateNow))
       IN  [success |-> TRUE,
            message |-> IF isValid /\ ~isExpired
                        THEN <<"Attestation is valid">>
                        ELSE <<"Attestation is invalid/expired">>,
            data    |-> attestation @@
                        [isValid   |-> isValid /\ ~isExpired,
                         isRevoked |-> attestation.revocationTime > 0,
                         isExpired |-> isExpired]]

(***************************************************************************)
(* devLog: sanitizeData and devLog.log                                     *)
(***************************************************************************)
\* Log data.  A string is a sequence of pieces, a key a sequence of
\* characters, an object the sequence of its entries in insertion order.
Str(pieces) == [t |-> "string", pieces |-> pieces]

Num(n) == [t |-> "number", n |-> n]

Obj(fields) == [t |-> "object", fields |-> fields]

Arr(items) == [t |-> "array", items |-> items]

Undefined == [t |-> "undefined"]

Field(k, val) == [key |-> k, value |-> val]

\* A piece that /0x[a-fA-F0-9]{64}/ matches, and one that the pattern of
\* twelve words matches; every other piece is text that neither matches.
HexKey == "0x<64 hex digits>"

Mnemonic12 == "<12 words>"

\* data.replace(/0x[a-fA-F0-9]{64}/g, '0x[REDACTED]')
\*     .replace(/\b[a-z]+\s+...{12 words}\b/gi, '[MNEMONIC_REDACTED]')
SanitizePiece(p) ==
  CASE p = HexKey     -> "0x[REDACTED]"
    [] p = Mnemonic12 -> "[MNEMONIC_REDACTED]"
    [] OTHER          -> p

SanitizeString(pieces) ==
  [i \in 1..Len(pieces) |-> SanitizePiece(pieces[i])]

\* The lower-case form of a character.
ToLowerChar(ch) ==
  LET UpperCase ==
        <<"A", "B", "C", "D", "E", "F", "G", "H", "I", "J", "K", "L", "M",
          "N", "O", "P", "Q", "R", "S", "T", "U", "V", "W", "X", "Y", "Z">>
      LowerCase ==
        <<"a", "b", "c", "d", "e", "f", "g", "h", "i", "j", "k", "l", "m",
          "n", "o", "p", "q", "r", "s", "t", "u", "v", "w", "x", "y", "z">>
  IN  IF \E i \in 1..Len(UpperCase) : UpperCase[i] = ch
      THEN LowerCase[CHOOSE i \in 1..Len(UpperCase) : UpperCase[i] = ch]
      ELSE ch

\* key.toLowerCase()
toLowerCase(key) == [i \in 1..Len(key) |-> ToLowerChar(key[i])]

\* s.includes(sub)
includes(s, sub) ==
  \E i \in 1..(Len(s) - Len(sub) + 1) : SubSeq(s, i, i + Len(sub) - 1) = sub

\* The test of a key if it compared the key as it is written.
IsSensitiveKeyExact(key) ==
  \/ includes(key, <<"p", "r", "i", "v", "a", "t", "e">>)
  \/ includes(key, <<"s", "e", "c", "r", "e", "t">>)
  \/ includes(key, <<"k", "e", "y">>)
  \/ includes(key, <<"m", "n", "e", "m", "o", "n", "i", "c">>)

\* The test sanitizeData applies to the key of an entry.
IsSensitiveKey(key) ==
  \/ includes(toLowerCase(key), <<"p", "r", "i", "v", "a", "t", "e">>)
  \/ includes(toLowerCase(key), <<"s", "e", "c", "r", "e", "t">>)
  \/ includes(toLowerCase(key), <<"k", "e", "y">>)
  \/ includes(toLowerCase(key), <<"m", "n", "e", "m", "o", "n", "i", "c">>)

\* sanitizeData: a string has its patterns replaced; an object or an array
\* becomes a plain object of its entries, each '[REDACTED]' under a
\* sensitive key and sanitized itself otherwise (the key of the i-th element
\* of an array is its index, i - 1); anything else is returned as it is.
RECURSIVE sanitizeData(_)
sanitizeData(data) ==
  CASE data.t = "string" -> Str(SanitizeString(data.pieces))
    [] data.t = "object" ->
         Obj([i \in 1..Len(data.fields) |->
                Field(data.fields[i].key,
                      IF IsSensitiveKey(data.fields[i].key)
                      THEN Str(<<"[REDACTED]">>)
                      ELSE sanitizeData(data.fields[i].value))])
    [] data.t = "array" ->
         Obj([i \in 1..Len(data.items) |->
                Field(<<ToString(i - 1)>>,
                      IF IsSensitiveKey(<<ToString(i - 1)>>)
                      THEN Str(<<"[REDACTED]">>)
                      ELSE sanitizeData(data.items[i]))])
    [] OTHER -> data

\* The truthiness of a value.
Truthy(data) ==
  CASE data.t = "string"    -> data.pieces # <<>>
    [] data.t = "number"    -> data.n # 0
    [] data.t = "undefined" -> FALSE
    [] OTHER                -> TRUE

\* devLog.log: the second argument of console.log, if the entry is logged.
\* In production only the ERROR and SECURITY categories are.
DevLogOutput(category, data, isProduction) ==
  LET entryData == IF Truthy(data) THEN sanitizeData(data) ELSE Undefined
  IN  IF isProduction /\ category \notin {"ERROR", "SECURITY"}
      THEN [some |-> FALSE]
      ELSE [some |-> TRUE,
            v    |-> IF Truthy(entryData) THEN entryData ELSE Str(<<>>)]

(***************************************************************************)
(* SpecPure: the conversions applied to drawn inputs                       *)
(***************************************************************************)
\* How far above MAX_SAFE_INTEGER the drawn ledger timestamps reach.
MaxOver == 4

PureTimes == 0..(MAX_SAFE_INTEGER + MaxOver)

\* Date.now() readings: a whole second, or its last millisecond.
PureDateNow == {s * 1000 + f : s \in 0..MAX_SAFE_INTEGER, f \in {0, 999}}

\* The characters of the drawn wire strings; "x" stands for any non-digit.
WireChars == {"0", "1", "9", "x"}

MaxWireLen == 2

WireStrings == UNION {[1..n -> WireChars] : n \in 0..MaxWireLen}

\* The value of the variables a specification does not use.
Unused(v) == v = NULL

\* The keys of the drawn log data: plain ones, one that holds a sensitive
\* word inside another word, and sensitive ones in several cases.
LogKeys ==
  {<<"u", "i", "d">>, <<"p", "r", "i", "v", "a", "t">>,
   <<"m", "o", "n", "k", "e", "y">>, <<"a", "p", "i", "K", "e", "y">>,
   <<"S", "E", "C", "R", "E", "T">>,
   <<"M", "n", "e", "m", "o", "n", "i", "c">>}

NestKeys == {<<"u", "i", "d">>, <<"a", "p", "i", "K", "e", "y">>}

LogLeaves == {Str(<<"hunter2">>), Str(<<"key ", HexKey>>), Num(1)}

\* How deep the drawn values nest, and how many entries an object has.
MaxDepth == 2

MaxFields == 2

\* The values nested at most d objects or arrays deep.
RECURSIVE Nested(_)
Nested(d) ==
  IF d = 0 THEN LogLeaves
  ELSE LogLeaves
       \cup {Obj(<<Field(k, val)>>) : k \in NestKeys, val \in Nested(d - 1)}
       \cup {Arr(<<val>>) : val \in Nested(d - 1)}

\* Objects of one entry of any drawn key and value, and objects of several
\* entries with distinct keys.
LogObjects ==
  LET NarrowFields ==
        {Field(k, val) : k \in NestKeys \cup {<<"S", "E", "C", "R", "E", "T">>},
                         val \in {Str(<<"hunter2">>), Num(1)}}
  IN  {Obj(<<Field(k, val)>>) : k \in LogKeys, val \in Nested(MaxDepth)}
      \cup {Obj(fs) : fs \in {f \in UNION {[1..n -> NarrowFields] :
                                             n \in 2..MaxFields} :
                                \A i, j \in DOMAIN f :
                                  f[i].key = f[j].key => i = j}}

\* What callers pass to devLog as data: objects, strings, or nothing.
LogData ==
  LogObjects
  \cup {Str(<<Mnemonic12>>), Str(<<"Private key: ", HexKey>>), Num(0),
        Undefined}

InitPure ==
  /\ pure = [op |-> "none"]
  /\ privateKeySet = TRUE
  /\ Unused(iq)
  /\ Unused(now) /\ Unused(schemas) /\ Unused(attestations)
  /\ Unused(calls) /\ Unused(hist) /\ Unused(server)

\* verifyAttestation's conversion followed by the handler's computation.
PureVerify ==
  /\ pure.op = "none"
  /\ \E t \in PureTimes, e \in PureTimes, r \in PureTimes, d \in PureDateNow :
       LET src == [uid |-> "u1", schema |-> "s1", revocable |-> TRUE,
                   time |-> t, expirationTime |-> e, revocationTime |-> r]
       IN  pure' = [op |-> "verify", src |-> src, dateNow |-> d,
                    out |-> VerifyOutcome(ToAttestationData(src), d)]
  /\ UNCHANGED <<server, privateKeySet, iq, ledgerVars>>

\* The conversion of one record of an index response.
PureTransform ==
  /\ pure.op = "none"
  /\ \E t \in WireStrings, e \in WireStrings, r \in WireStrings :
       LET g == [id |-> "u1", schemaId |-> "s1", revocable |-> TRUE,
                 timeCreated |-> t, expirationTime |-> e, revocationTime |-> r]
       IN  pure' = [op |-> "transform", src |-> g, out |-> TransformGql(g)]
  /\ UNCHANGED <<server, privateKeySet, iq, ledgerVars>>

\* One call of devLog.log.
PureLog ==
  /\ pure.op = "none"
  /\ \E d \in LogData, category \in {"AGENT", "ERROR"}, isProduction \in BOOLEAN :
       pure' = [op |-> "log", data |-> d, category |-> category,
                production |-> isProduction,
                emitted |-> DevLogOutput(category, d, isProduction)]
  /\ UNCHANGED <<server, privateKeySet, iq, ledgerVars>>

NextPure == PureVerify \/ PureTransform \/ PureLog

SpecPure == InitPure /\ [][NextPure]_vars

(***************************************************************************)
(* Claims about the conversions (under SpecPure)                           *)
(***************************************************************************)
\* The evaluation time of the drawn verification, in whole seconds.
PureNowSec == pure.dateNow \div 1000

\* C1: for every present record and every evaluation time, the verify
\* operation returns the record with isRevoked = (revocationTime > 0),
\* isExpired = (expirationTime > 0 and expirationTime < now) and
\* isValid = (revocationTime = 0) and not isExpired, the times being those
\* of the source record and now the clock reading in whole seconds.
C1_VerifyDerivation ==
  pure.op = "verify" =>
    LET s == pure.src
        d == pure.out.data
        expired == s.expirationTime > 0 /\ s.expirationTime < PureNowSec
    IN  /\ pure.out.success
        /\ d.uid = s.uid /\ d.schema = s.schema /\ d.revocable = s.revocable
        /\ d.isRevoked = (s.revocationTime > 0)
        /\ d.isExpired = expired
        /\ d.isValid = (s.revocationTime = 0 /\ ~expired)
        /\ (s.expirationTime = 0 => ~d.isExpired)
        /\ (s.expirationTime = PureNowSec => ~d.isExpired)
        /\ (s.revocationTime > 0 => ~d.isValid /\ d.isRevoked)

\* C1's case: a record that expires exactly now, not revoked, verified as
\* valid in the last millisecond of that second.
C1_Witness ==
  /\ pure.op = "verify"
  /\ pure.src.expirationTime > 0
  /\ pure.src.expirationTime = PureNowSec
  /\ pure.dateNow % 1000 > 0
  /\ pure.src.revocationTime = 0
  /\ pure.out.data.isValid
  /\ ~pure.out.data.isExpired

\* The value the normaliser is to return for the source value t.
Saturated(t) == IF t <= MAX_SAFE_INTEGER THEN t ELSE MAX_SAFE_INTEGER

\* A wire string that is a number: one or more digits and nothing else.
IsNumeric(s) == s # <<>> /\ \A i \in 1..Len(s) : IsDigit(s[i])

\* C8: every timestamp field of a returned record equals the source value t
\* when t <= MAX_SAFE_INTEGER and MAX_SAFE_INTEGER when t is larger; for the
\* index the source value is the number its wire string denotes.
C8_TimestampsSaturate ==
  /\ pure.op = "verify" =>
       /\ pure.out.data.time = Saturated(pure.src.time)
       /\ pure.out.data.expirationTime = Saturated(pure.src.expirationTime)
       /\ pure.out.data.revocationTime = Saturated(pure.src.revocationTime)
  /\ (pure.op = "transform" /\ ~pure.out.threw) =>
       LET g == pure.src
           v == pure.out.value
       IN  /\ IsNumeric(g.timeCreated) =>
                v.time = Saturated(DigitsValue(g.timeCreated))
           /\ IsNumeric(g.expirationTime) =>
                v.expirationTime = Saturated(DigitsValue(g.expirationTime))
           /\ IsNumeric(g.revocationTime) =>
                v.revocationTime = Saturated(DigitsValue(g.revocationTime))

\* C8's case: an index record with one time above MAX_SAFE_INTEGER that no
\* double represents, one in the safe range and one zero, returned clamped.
C8_Witness ==
  /\ pure.op = "transform"
  /\ ~pure.out.threw
  /\ IsNumeric(pure.src.timeCreated)
  /\ IsNumeric(pure.src.expirationTime)
  /\ IsNumeric(pure.src.revocationTime)
  /\ DigitsValue(pure.src.expirationTime) > MAX_SAFE_INTEGER
  /\ ToDouble(DigitsValue(pure.src.expirationTime))
       # DigitsValue(pure.src.expirationTime)
  /\ DigitsValue(pure.src.timeCreated) \in 1..MAX_SAFE_INTEGER
  /\ DigitsValue(pure.src.revocationTime) = 0
  /\ pure.out.value.expirationTime = MAX_SAFE_INTEGER
  /\ pure.out.value.time = DigitsValue(pure.src.timeCreated)

\* The keys the redaction is about: those that contain one of the four
\* words, whatever the case of their letters.
ClaimSensitive(key) ==
  \E w \in {<<"p", "r", "i", "v", "a", "t", "e">>,
            <<"s", "e", "c", "r", "e", "t">>,
            <<"k", "e", "y">>,
            <<"m", "n", "e", "m", "o", "n", "i", "c">>} :
    \E i \in 1..Len(key) :
      /\ i + Len(w) - 1 <= Len(key)
      /\ \A j \in 1..Len(w) : ToLowerChar(key[i + j - 1]) = w[j]

\* out is src with every entry under a sensitive key replaced by
\* '[REDACTED]', at every depth, and every other entry kept: an object or an
\* array entry by entry, a string with its text outside the two patterns
\* unchanged and no key-like piece left, any other value as it is.
RECURSIVE Conforms(_, _)
Conforms(src, out) ==
  CASE src.t = "object" ->
         /\ out.t = "object"
         /\ Len(out.fields) = Len(src.fields)
         /\ \A i \in 1..Len(src.fields) :
              /\ out.fields[i].key = src.fields[i].key
              /\ IF ClaimSensitive(src.fields[i].key)
                 THEN out.fields[i].value = Str(<<"[REDACTED]">>)
                 ELSE Conforms(src.fields[i].value, out.fields[i].value)
    [] src.t = "array" ->
         /\ out.t = "object"
         /\ Len(out.fields) = Len(src.items)
         /\ \A i \in 1..Len(src.items) :
              Conforms(src.items[i], out.fields[i].value)
    [] src.t = "string" ->
         /\ out.t = "string"
         /\ Len(out.pieces) = Len(src.pieces)
         /\ \A i \in 1..Len(src.pieces) :
              /\ out.pieces[i] \notin {HexKey, Mnemonic12}
              /\ src.pieces[i] \notin {HexKey, Mnemonic12} =>
                   out.pieces[i] = src.pieces[i]
    [] OTHER -> out = src

\* C25: when an object is passed to devLog as data, what reaches console.log,
\* if anything does, is the object with '[REDACTED]' in place of the value
\* of every entry whose key contains 'private', 'secret', 'key' or
\* 'mnemonic' in any case, at every nesting depth, and with every other
\* entry kept with its sanitized value.
C25_SensitiveKeysRedacted ==
  (pure.op = "log" /\ pure.data.t = "object" /\ pure.emitted.some) =>
    Conforms(pure.data, pure.emitted.v)

\* C25's case: an entry with a mixed-case sensitive key, nested in an array
\* inside an object, was logged redacted.
C25_Witness ==
  /\ pure.op = "log"
  /\ pure.data =
       Obj(<<Field(<<"u", "i", "d">>,
                   Arr(<<Obj(<<Field(<<"a", "p", "i", "K", "e", "y">>,
                                     Str(<<"hunter2">>))>>)>>))>>)
  /\ pure.emitted =
       [some |-> TRUE,
        v |-> Obj(<<Field(<<"u", "i", "d">>,
                 Obj(<<Field(<<"0">>,
                        Obj(<<Field(<<"a", "p", "i", "K", "e", "y">>,
                                    Str(<<"[REDACTED]">>))>>))>>))>>)]

(***************************************************************************)
(* GraphQLService: one index request                                       *)
(***************************************************************************)
\* An optional input: undefined, or a value.
None == [some |-> FALSE]

Some(v) == [some |-> TRUE, v |-> v]

\* JavaScript truthiness of an optional string and of an optional number.
TruthyStr(o) == o.some /\ o.v # ""

TruthyNum(o) == o.some /\ o.v # 0

\* The filter clauses of the where-block of the query text: each is written
\* when its filter is truthy.
WhereClausesAll(filters) ==
  {[field |-> "recipient", var |-> "$recipient"],
   [field |-> "attester", var |-> "$attester"],
   [field |-> "schemaId", var |-> "$schema"]}

WhereClauses(filters) ==
  (IF TruthyStr(filters.recipient)
   THEN {[field |-> "recipient", var |-> "$recipient"]} ELSE {})
  \cup (IF TruthyStr(filters.attester)
        THEN {[field |-> "attester", var |-> "$attester"]} ELSE {})
  \cup (IF TruthyStr(filters.schema)
        THEN {[field |-> "schemaId", var |-> "$schema"]} ELSE {})

\* limit: filters.limit || 10
DefaultLimit == 10

\* The variables object sent with the query.
QueryVariables(filters) ==
  [recipient |-> filters.recipient,
   attester  |-> filters.attester,
   schema    |-> filters.schema,
   limit     |-> IF TruthyNum(filters.limit) THEN filters.limit.v
                 ELSE DefaultLimit]

\* The body of the POST request of queryAttestations.
ManyRequest(filters) ==
  [operation |-> "GetAttestations",
   where     |-> WhereClauses(filters),
   variables |-> QueryVariables(filters)]

\* The body of the POST request of queryAttestationsByUID.
OneRequest(uid) ==
  [operation |-> "GetAttestation", where |-> {}, variables |-> [uid |-> uid]]

\* The catch block of queryAttestations ("many") and queryAttestationsByUID
\* ("one"): the error e rethrown with the method's prefix.
QueryCatch(kind, e) ==
  Throw(<<IF kind = "one" THEN "GraphQL attestation query failed: "
          ELSE "GraphQL query failed: ">>
        \o ErrorMessage(e, "Unknown GraphQL error"))

\* response.errors.map(e => e.message).join(', ')
RECURSIVE JoinMessages(_)
JoinMessages(errs) ==
  IF errs = <<>> THEN <<>>
  ELSE IF Len(errs) = 1 THEN <<errs[1]>>
  ELSE <<errs[1], ", ">> \o JoinMessages(Tail(errs))

\* attestations.map(callback): the converted records, or the error of the
\* first record whose conversion throws.
RECURSIVE MapTransform(_)
MapTransform(list) ==
  IF list = <<>> THEN Return(<<>>)
  ELSE LET h == TransformGql(Head(list))
       IN  IF h.threw THEN h
           ELSE LET t == MapTransform(Tail(list))
                IN  IF t.threw THEN t ELSE Return(<<h.value>> \o t.value)

\* queryAttestations if it looked at the data of the response only.
ManyResponseOutcomeLenient(resp) ==
  IF resp.data.some /\ resp.data.v.some
  THEN LET m == MapTransform(resp.data.v.v)
       IN  IF m.threw THEN QueryCatch("many", m) ELSE m
  ELSE Return(<<>>)

\* queryAttestations if only a non-empty errors list made it fail.
ManyResponseOutcomeNonEmptyErrors(resp) ==
  IF resp.errors.some /\ resp.errors.v # <<>>
  THEN QueryCatch("many",
         Err(<<"GraphQL errors: ">> \o JoinMessages(resp.errors.v)))
  ELSE IF ~resp.data.some
  THEN QueryCatch("many", Err(<<"No data returned from GraphQL query">>))
  ELSE IF ~resp.data.v.some
  THEN QueryCatch("many",
         Err(<<"Cannot read properties of undefined (reading 'map')">>))
  ELSE LET m == MapTransform(resp.data.v.v)
       IN  IF m.threw THEN QueryCatch("many", m) ELSE m

\* queryAttestations after httpResponse.json() resolved to resp.
ManyResponseOutcome(resp) ==
  IF resp.errors.some
  THEN QueryCatch("many",
         Err(<<"GraphQL errors: ">> \o JoinMessages(resp.errors.v)))
  ELSE IF ~resp.data.some
  THEN QueryCatch("many", Err(<<"No data returned from GraphQL query">>))
  ELSE IF ~resp.data.v.some
  THEN QueryCatch("many",
         Err(<<"Cannot read properties of undefined (reading 'map')">>))
  ELSE LET m == MapTransform(resp.data.v.v)
       IN  IF m.threw THEN QueryCatch("many", m) ELSE m

\* queryAttestationsByUID after httpResponse.json() resolved to resp.
OneResponseOutcome(resp) ==
  IF ~resp.data.some \/ resp.data.v = NULL
  THEN Return(NULL)
  ELSE LET m == TransformGql(resp.data.v)
       IN  IF m.threw THEN QueryCatch("one", m) ELSE m

ResponseOutcome(kind, resp) ==
  IF kind = "one" THEN OneResponseOutcome(resp) ELSE ManyResponseOutcome(resp)

\* if (!httpResponse.ok) throw new Error(`HTTP ${status}: ${statusText}`)
HttpError(kind, http) ==
  QueryCatch(kind,
    Err(<<"HTTP ", ToString(http.status), ": ", http.statusText>>))

\* The rejection of a fetch whose signal was aborted: a DOMException named
\* AbortError, which is an Error with this message.
AbortError == Err(<<"This operation was aborted">>)

(***************************************************************************)
(* listAttestations and its handler                                        *)
(***************************************************************************)
\* getPrivateKey() with PRIVATE_KEY unset, in the service's constructor.
NoPrivateKey == Err(<<"PRIVATE_KEY environment variable not set">>)

\* A catch block that answered without the message of what it caught.
HandlerFailureGeneric(prefix, e) ==
  [success |-> FALSE, message |-> <<prefix, "Unknown error occurred">>,
   data |-> NULL]

\* A handler's catch block: {success: false, message, data: null}.
HandlerFailure(prefix, e) ==
  [success |-> FALSE,
   message |-> <<prefix>> \o ErrorMessage(e, "Unknown error occurred"),
   data    |-> NULL]

\* A catch block that rethrew without the message of what it caught.
ServiceCatchGeneric(prefix, e) == Throw(<<prefix, "Unknown error occurred">>)

\* A service method's catch block: the error rethrown with its prefix.
ServiceCatch(prefix, e) ==
  Throw(<<prefix>> \o ErrorMessage(e, "Unknown error occurred"))

\* listAttestations if it answered a failed query with an empty list.
ListAttestationsOutcomeEmpty(qres) ==
  IF qres.threw THEN Return(<<>>) ELSE qres

\* listAttestations, given what queryAttestations settled to.
ListAttestationsOutcome(qres) ==
  IF qres.threw
  THEN ServiceCatch("Failed to list attestations: ", qres)
  ELSE qres

\* handleListAttestations, given what listAttestations settled to.
HandleListOutcome(sres) ==
  IF sres.threw
  THEN HandlerFailure("Failed to list attestations: ", sres)
  ELSE [success |-> TRUE,
        message |-> <<"Found ", ToString(Len(sres.value)), " attestations">>,
        data    |-> [attestations |-> sres.value, count |-> Len(sres.value)]]

\* What the caller of the index call gets: the handler's result for a list
\* call, the method's own outcome for a direct queryAttestationsByUID.
CallerResult(kind, qres) ==
  IF kind = "one" THEN qres
  ELSE HandleListOutcome(ListAttestationsOutcome(qres))

(***************************************************************************)
(* SpecIndex                                                               *)
(***************************************************************************)
FilterValues == {None, Some(""), Some("0xR")}

LimitValues == {None, Some(0), Some(2)}

ListInputs ==
  [recipient : FilterValues, attester : FilterValues, schema : FilterValues,
   limit : LimitValues]

\* The identifiers asked of queryAttestationsByUID.
IndexUids == {"u1", ZERO_UID}

\* Records an index response may carry: a plain one, a revoked one with an
\* expiration above MAX_SAFE_INTEGER, one with the all-zero identifier, and
\* ones whose times are not numbers.
GqlRecord(id, t, e, r) ==
  [id |-> id, schemaId |-> "s1", revocable |-> TRUE,
   timeCreated |-> t, expirationTime |-> e, revocationTime |-> r]

IndexRecords ==
  {GqlRecord("u1", <<"1">>, <<"0">>, <<"0">>),
   GqlRecord("u2", <<"1">>, <<"9", "9">>, <<"2">>),
   GqlRecord(ZERO_UID, <<"0">>, <<"0">>, <<"0">>),
   GqlRecord("u1", <<"x">>, <<"0">>, <<"0">>),
   GqlRecord("u1", <<"1">>, <<"1", "x">>, <<"0">>),
   GqlRecord("u2", <<"1">>, <<"0">>, <<>>)}

MaxRecords == 2

RecordLists == UNION {[1..n -> IndexRecords] : n \in 0..MaxRecords}

ErrorLists == {None, Some(<<>>), Some(<<"e1">>), Some(<<"e1", "e2">>)}

ManyResponses ==
  [errors : ErrorLists,
   data   : {None, Some(None)} \cup {Some(Some(l)) : l \in RecordLists}]

OneResponses ==
  [errors : ErrorLists,
   data   : {None, Some(NULL)} \cup {Some(g) : g \in IndexRecords}]

Responses(kind) == IF kind = "one" THEN OneResponses ELSE ManyResponses

HttpResponses ==
  {[status |-> 200, ok |-> TRUE, statusText |-> "OK"],
   [status |-> 500, ok |-> FALSE, statusText |-> "Internal Server Error"],
   [status |-> 404, ok |-> FALSE, statusText |-> "Not Found"]}

\* Rejections of fetch other than the abort, and of response.json().
FetchErrors == {Err(<<"fetch failed">>)}

BodyErrors == {Err(<<"Unexpected token < in JSON at position 0">>)}

\* No index call is in progress.
IdleCall ==
  [pc |-> "idle", kind |-> "none", args |-> NULL, request |-> NULL,
   timer |-> "none", aborted |-> FALSE, elapsed |-> FALSE, cause |-> "none",
   response |-> NULL, qres |-> NULL, result |-> NULL]

InitIndex ==
  /\ pure = [op |-> "none"]
  /\ privateKeySet \in BOOLEAN
  /\ iq = IdleCall
  /\ Unused(now) /\ Unused(schemas) /\ Unused(attestations)
  /\ Unused(calls) /\ Unused(hist) /\ Unused(server)

\* The call has settled: queryAttestations(ByUID) with qres, for the reason
\* cause.  The deadline timer is left as it is.
Settle(cause, qres) ==
  iq' = [iq EXCEPT !.pc = "done", !.cause = cause, !.qres = qres,
                   !.result = CallerResult(iq.kind, qres)]

\* handleListAttestations up to the fetch: the service is constructed (which
\* throws without a private key), the query is built, the 30 s timer is
\* armed and the request is sent.
StartList ==
  /\ iq.pc = "idle"
  /\ \E f \in ListInputs :
       IF ~privateKeySet
       THEN iq' = [IdleCall EXCEPT
                     !.pc = "done", !.kind = "list", !.args = f,
                     !.cause = "nokey",
                     !.result = HandlerFailure("Failed to list attestations: ",
                                               NoPrivateKey)]
       ELSE iq' = [IdleCall EXCEPT
                     !.pc = "fetching", !.kind = "list", !.args = f,
                     !.request = ManyRequest(f), !.timer = "armed"]
  /\ UNCHANGED <<server, pure, privateKeySet, ledgerVars>>

\* queryAttestationsByUID up to the fetch.
StartQueryOne ==
  /\ iq.pc = "idle"
  /\ \E uid \in IndexUids :
       iq' = [IdleCall EXCEPT
                !.pc = "fetching", !.kind = "one", !.args = uid,
                !.request = OneRequest(uid), !.timer = "armed"]
  /\ UNCHANGED <<server, pure, privateKeySet, ledgerVars>>

\* The 30 s timer fires while fetch is pending: controller.abort() rejects
\* the fetch, the finally block clears the timer and the catch block
\* rethrows.
DeadlineElapses ==
  /\ iq.pc = "fetching"
  /\ iq.timer = "armed"
  /\ iq' = [iq EXCEPT !.pc = "done", !.cause = "deadline",
                      !.timer = "fired", !.aborted = TRUE, !.elapsed = TRUE,
                      !.qres = QueryCatch(iq.kind, AbortError),
                      !.result = CallerResult(iq.kind,
                                   QueryCatch(iq.kind, AbortError))]
  /\ UNCHANGED <<server, pure, privateKeySet, ledgerVars>>

\* fetch rejects (no connection): the timer is cleared and the catch block
\* rethrows.
FetchFails ==
  /\ iq.pc = "fetching"
  /\ \E e \in FetchErrors :
       iq' = [iq EXCEPT !.pc = "done", !.cause = "network",
                        !.timer = "cleared",
                        !.qres = QueryCatch(iq.kind, e),
                        !.result = CallerResult(iq.kind,
                                                QueryCatch(iq.kind, e))]
  /\ UNCHANGED <<server, pure, privateKeySet, ledgerVars>>

\* The arrival of the headers if the timer were cleared only when the call
\* ends.
HeadersArriveTimerKept ==
  /\ iq.pc = "fetching"
  /\ \E http \in HttpResponses :
       IF http.ok
       THEN iq' = [iq EXCEPT !.pc = "readingBody"]
       ELSE iq' = [iq EXCEPT !.pc = "done", !.cause = "http",
                             !.timer = "cleared",
                             !.qres = HttpError(iq.kind, http),
                             !.result = CallerResult(iq.kind,
                                          HttpError(iq.kind, http))]
  /\ UNCHANGED <<server, pure, privateKeySet, ledgerVars>>

\* fetch resolves with the response's status line and headers: the timer is
\* cleared; a status that is not ok throws, otherwise the body is awaited.
HeadersArrive ==
  /\ iq.pc = "fetching"
  /\ \E http \in HttpResponses :
       IF http.ok
       THEN iq' = [iq EXCEPT !.pc = "readingBody", !.timer = "cleared"]
       ELSE iq' = [iq EXCEPT !.pc = "done", !.cause = "http",
                             !.timer = "cleared",
                             !.qres = HttpError(iq.kind, http),
                             !.result = CallerResult(iq.kind,
                                          HttpError(iq.kind, http))]
  /\ UNCHANGED <<server, pure, privateKeySet, ledgerVars>>

\* httpResponse.json() resolves: the response is checked and converted.
BodyArrives ==
  /\ iq.pc = "readingBody"
  /\ \E resp \in Responses(iq.kind) :
       iq' = [iq EXCEPT !.pc = "done", !.cause = "response",
                        !.response = resp,
                        !.qres = ResponseOutcome(iq.kind, resp),
                        !.result = CallerResult(iq.kind,
                                     ResponseOutcome(iq.kind, resp))]
  /\ UNCHANGED <<server, pure, privateKeySet, ledgerVars>>

\* httpResponse.json() rejects: the body is not JSON.
BodyFails ==
  /\ iq.pc = "readingBody"
  /\ \E e \in BodyErrors : Settle("body", QueryCatch(iq.kind, e))
  /\ UNCHANGED <<server, pure, privateKeySet, ledgerVars>>

\* 30 s have passed since the request was sent and the body is still
\* awaited: the timer was cleared when the headers arrived, nothing runs.
DeadlinePassesUnarmed ==
  /\ iq.pc = "readingBody"
  /\ iq.timer = "cleared"
  /\ ~iq.elapsed
  /\ iq' = [iq EXCEPT !.elapsed = TRUE]
  /\ UNCHANGED <<server, pure, privateKeySet, ledgerVars>>

\* The caller has its result; the next call may start.
IndexCallEnds ==
  /\ iq.pc = "done"
  /\ iq' = IdleCall
  /\ UNCHANGED <<server, pure, privateKeySet, ledgerVars>>

NextIndex ==
  \/ StartList
  \/ StartQueryOne
  \/ DeadlineElapses
  \/ FetchFails
  \/ HeadersArrive
  \/ BodyArrives
  \/ BodyFails
  \/ DeadlinePassesUnarmed
  \/ IndexCallEnds

SpecIndex == InitIndex /\ [][NextIndex]_vars

(***************************************************************************)
(* Claims about the index client (under SpecIndex)                         *)
(***************************************************************************)
\* The records a settled index call returned to its caller.
ReturnedRecords ==
  IF iq.pc # "done" \/ iq.cause # "response" \/ iq.qres.threw THEN {}
  ELSE IF iq.kind = "one"
       THEN (IF iq.qres.value = NULL THEN {} ELSE {iq.qres.value})
       ELSE {iq.qres.value[i] : i \in 1..Len(iq.qres.value)}

\* C2: no read path surfaces a record whose identifier is the all-zero
\* sentinel; here for the two read paths of the index, queryAttestations
\* and queryAttestationsByUID.
C2_NoZeroUidSurfaced == \A r \in ReturnedRecords : r.uid # ZERO_UID

\* The filters of a list call and the field each one constrains.
FilterNames == {"recipient", "attester", "schema"}

FilterField(f) == IF f = "schema" THEN "schemaId" ELSE f

FilterVar(f) ==
  CASE f = "recipient" -> "$recipient"
    [] f = "attester"  -> "$attester"
    [] f = "schema"    -> "$schema"

\* The where-clause of the request holds a clause, bound to the filter's own
\* variable, for exactly the filters in the set present.
ClausesAreExactly(present) ==
  iq.request.where = {[field |-> FilterField(f), var |-> FilterVar(f)] :
                        f \in present}

\* C9 as claimed: the where-clause of a list request holds a clause for
\* exactly the filters that are present in the input.
C9_ClausesForPresentFilters ==
  (iq.kind = "list" /\ iq.pc \in {"fetching", "readingBody"}) =>
    ClausesAreExactly({f \in FilterNames : iq.args[f].some})

\* C9 as amended: the where-clause of a list request holds a clause for
\* exactly the filters that are present with a non-empty value; a filter
\* that is not supplied, or is the empty string, contributes no clause.
C9_ClausesForNonEmptyFilters ==
  (iq.kind = "list" /\ iq.pc \in {"fetching", "readingBody"}) =>
    ClausesAreExactly({f \in FilterNames :
                         iq.args[f].some /\ iq.args[f].v # ""})

\* C9's case: a request with one filter set, one empty and one missing.
C9_Witness ==
  /\ iq.kind = "list"
  /\ iq.pc = "fetching"
  /\ iq.args.recipient = Some("0xR")
  /\ iq.args.attester = Some("")
  /\ iq.args.schema = None
  /\ iq.request.where = {[field |-> "recipient", var |-> "$recipient"]}

\* The failure a caller can recognise as the deadline's: its message ends
\* with the text of the abort.
IsFailure(r) == IF iq.kind = "one" THEN r.threw ELSE ~r.success

IsTimeoutFailure(r) ==
  /\ IsFailure(r)
  /\ r.message[Len(r.message)] = "This operation was aborted"

\* C10: when the deadline elapses while the fetch is pending, the request is
\* aborted and the caller gets a failure it can tell from the failure of a
\* connection error or of a non-success HTTP status.
C10_TimeoutDistinct ==
  iq.pc = "done" =>
    /\ iq.cause = "deadline" =>
         iq.aborted /\ iq.elapsed /\ IsTimeoutFailure(iq.result)
    /\ iq.cause \in {"network", "http"} =>
         ~iq.aborted /\ IsFailure(iq.result) /\ ~IsTimeoutFailure(iq.result)

\* C10's case: a list call that ended by the deadline.
C10_Witness ==
  /\ iq.pc = "done"
  /\ iq.kind = "list"
  /\ iq.cause = "deadline"
  /\ iq.aborted
  /\ iq.result.message =
       <<"Failed to list attestations: ", "Failed to list attestations: ",
         "GraphQL query failed: ", "This operation was aborted">>

\* The call is waiting on the index service: for the response headers or for
\* the response body.
WaitingOnIndex == iq.pc \in {"fetching", "readingBody"}

\* C11: in every state in which an index call is waiting on the index
\* service the 30 s timer is armed, and no call is still waiting once the
\* deadline has elapsed.
C11_TimerArmedWhileWaiting ==
  WaitingOnIndex => (iq.timer = "armed" /\ ~iq.elapsed)

\* The body of the response of a settled call carries service-level error
\* entries, or lacks the data container.
HasErrorEntries(resp) == resp.errors.some /\ Len(resp.errors.v) >= 1

LacksData(resp) == ~resp.data.some

C13_QueryOneFailsFast ==
  (iq.kind = "one" /\ iq.pc = "done") =>
    /\ iq.cause = "http" => iq.qres.threw
    /\ iq.cause = "response" =>
         /\ (HasErrorEntries(iq.response) \/ LacksData(iq.response)) =>
              iq.qres.threw
         /\ (~iq.qres.threw /\ iq.qres.value = NULL) =>
              /\ ~HasErrorEntries(iq.response)
              /\ iq.response.data = Some(NULL)

\* The time strings of a record of an index response are all numeric.
NumericTimes(g) ==
  /\ IsNumeric(g.timeCreated)
  /\ IsNumeric(g.expirationTime)
  /\ IsNumeric(g.revocationTime)

\* The records of the body of a settled call.
ResponseRecords ==
  IF iq.cause # "response" \/ ~iq.response.data.some THEN {}
  ELSE IF iq.kind = "one"
       THEN (IF iq.response.data.v = NULL THEN {} ELSE {iq.response.data.v})
       ELSE IF ~iq.response.data.v.some THEN {}
       ELSE {iq.response.data.v.v[i] : i \in 1..Len(iq.response.data.v.v)}

\* C14: a call whose response holds a record with a time field that is not
\* a numeric string has failed, and returned no record.
C14_NonNumericTimeFails ==
  (iq.pc = "done" /\ \E g \in ResponseRecords : ~NumericTimes(g)) =>
    (iq.qres.threw /\ ReturnedRecords = {})

\* C16: when the query of the index fails, the list operation returns an
\* empty array instead of failing.
C16_ListEmptyOnQueryFailure ==
  (iq.kind = "list" /\ iq.pc = "done" /\ iq.cause # "nokey"
   /\ iq.qres.threw) =>
    /\ iq.result.success
    /\ iq.result.data.attestations = <<>>

\* C27: once the fetch of an index call has settled the deadline timer is
\* cleared: it is armed only while the fetch is pending, the abort callback
\* has run only in a call that ended by the deadline while fetching, and a
\* call that is reading the body or has ended, with a result or a failure,
\* has no armed timer.
C27_TimerClearedOnSettle ==
  /\ iq.timer = "armed" => iq.pc = "fetching"
  /\ iq.pc = "readingBody" => (iq.timer = "cleared" /\ ~iq.aborted)
  /\ iq.pc = "done" =>
       /\ iq.timer # "armed"
       /\ iq.aborted => (iq.cause = "deadline" /\ iq.timer = "fired")
       /\ iq.cause \in {"network", "http", "response", "body"} =>
            (iq.timer = "cleared" /\ ~iq.aborted)

\* C27's case: a call returned its records although 30 s passed while the
\* body was read: the timer had been cleared and nothing fired.
C27_Witness ==
  /\ iq.pc = "done"
  /\ iq.cause = "response"
  /\ ~iq.qres.threw
  /\ iq.elapsed
  /\ iq.timer = "cleared"
  /\ ~iq.aborted

\* C28: queryAttestations returns records only from a response with a
\* success status that carries no errors list and has the data container; a
\* response with an errors list, the empty list next to valid data included,
\* makes the call fail with 'GraphQL errors: ...'.
C28_RecordsOnlyFromCleanResponse ==
  (iq.kind = "list" /\ iq.pc = "done") =>
    /\ (iq.qres # NULL /\ ~iq.qres.threw) =>
         /\ iq.cause = "response"
         /\ ~iq.response.errors.some
         /\ iq.response.data.some
    /\ (iq.cause = "response" /\ iq.response.errors.some) =>
         /\ iq.qres.threw
         /\ ~iq.result.success
         /\ iq.result.data = NULL
         /\ Len(iq.result.message) >= 4
         /\ SubSeq(iq.result.message, 1, 4) =
              <<"Failed to list attestations: ",
                "Failed to list attestations: ",
                "GraphQL query failed: ", "GraphQL errors: ">>

\* C28's case: a list call that failed on a response with an empty errors
\* list next to a record.
C28_Witness ==
  /\ iq.kind = "list"
  /\ iq.pc = "done"
  /\ iq.cause = "response"
  /\ iq.response.errors = Some(<<>>)
  /\ iq.response.data.some
  /\ iq.response.data.v.some
  /\ Len(iq.response.data.v.v) = 1
  /\ iq.result.message =
       <<"Failed to list attestations: ", "Failed to list attestations: ",
         "GraphQL query failed: ", "GraphQL errors: ">>

(***************************************************************************)
(* The ledger, as the EAS contract and the schema registry answer          *)
(***************************************************************************)
\* The identifiers the ledger gives to attestations, in the order it gives
\* them; an identifier it never gives; and the schema identifiers: that of a
\* revocable schema and that of a schema that is not.
LedgerUids == <<"u1">>

NeverIssuedUid == "u9"

SchemaUids == {"sRevocable", "sIrrevocable"}

\* The record the ledger returns for an identifier it has no attestation of.
EmptyAttestation ==
  [uid |-> ZERO_UID, schema |-> ZERO_UID, revocable |-> FALSE,
   time |-> 0, expirationTime |-> 0, revocationTime |-> 0]

IsLedgerUid(uid) == \E i \in 1..Len(LedgerUids) : LedgerUids[i] = uid

\* A bytes32 value: the ledger can be asked for it.  Anything else, such as
\* the placeholder 'unknown', is refused before any request is sent.
IsBytes32(uid) == IsLedgerUid(uid) \/ uid = NeverIssuedUid \/ uid = ZERO_UID

\* getAttestation(uid) of the contract.
LedgerRecord(uid) ==
  IF IsLedgerUid(uid) THEN attestations[uid] ELSE EmptyAttestation

FreeSlots == {i \in 1..Len(LedgerUids) : attestations[LedgerUids[i]].uid = ZERO_UID}

\* The identifier the next attestation gets.
NextUid == LedgerUids[CHOOSE i \in FreeSlots : \A j \in FreeSlots : i <= j]

\* Whether the contract accepts the request now (it reverts otherwise).
AttestAccepted(req) ==
  /\ req.schema \in schemas
  /\ req.expirationTime = 0 \/ req.expirationTime > now
  /\ FreeSlots # {}

RevokeAccepted(req) ==
  /\ IsLedgerUid(req.uid)
  /\ attestations[req.uid].uid = req.uid
  /\ attestations[req.uid].schema = req.schema
  /\ attestations[req.uid].revocable
  /\ attestations[req.uid].revocationTime = 0

RegisterAccepted(req) == req.schema \notin schemas

Accepted(op, req) ==
  CASE op = "issue"        -> AttestAccepted(req)
    [] op = "revoke"       -> RevokeAccepted(req)
    [] op = "createSchema" -> RegisterAccepted(req)

(***************************************************************************)
(* AttestationService and the handlers of the ledger-backed tools          *)
(***************************************************************************)
Prefix(op) ==
  CASE op = "issue"        -> "Failed to issue attestation: "
    [] op = "verify"       -> "Failed to verify attestation: "
    [] op = "list"         -> "Failed to list attestations: "
    [] op = "createSchema" -> "Failed to create schema: "
    [] op = "revoke"       -> "Failed to revoke attestation: "

\* A handler that answered a caught error with a success result.
FailCallAsSuccess(op, e) ==
  [success |-> TRUE, message |-> <<"Attestation issued successfully">>,
   data |-> [uid |-> "unknown", txHash |-> "unknown"]]

\* The handler's result when the service method caught the error e: the
\* method rethrows it with its prefix and the handler's catch block adds the
\* prefix again.
FailCall(op, e) ==
  HandlerFailure(Prefix(op), ServiceCatch(Prefix(op), e))

\* verifyAttestation if it returned whatever record the ledger gave.
VerifyAttestationOutcomeUnchecked(attestation) ==
  IF attestation = NULL
  THEN Return(NULL)
  ELSE Return(ToAttestationData(attestation))

\* verifyAttestation, given what getAttestation resolved to.
VerifyAttestationOutcome(attestation) ==
  IF attestation = NULL \/ attestation.uid = ZERO_UID
  THEN Return(NULL)
  ELSE Return(ToAttestationData(attestation))

\* The check if it looked for a missing record only.
RevokeLookupAbsentNull(attestation) == attestation = NULL

\* revokeAttestation's check of what getAttestation resolved to.
RevokeLookupAbsent(attestation) ==
  attestation = NULL \/ attestation.uid = ZERO_UID

\* throw new Error(`Attestation ${input.uid} not found`)
NotFoundError(uid) == Err(<<"Attestation ", uid, " not found">>)

\* A request bound to another schema than that of the record read.
RevokeRequestOther(attestation, uid) ==
  [schema |-> ZERO_UID, uid |-> uid]

\* The request revokeAttestation hands to eas.revoke.
RevokeRequest(attestation, uid) ==
  [schema |-> attestation.schema, uid |-> uid]

\* The request issueAttestation hands to eas.attest.
AttestRequest(input) ==
  [schema         |-> input.schema,
   expirationTime |-> IF TruthyNum(input.expirationTime)
                      THEN input.expirationTime.v ELSE 0,
   revocable      |-> IF input.revocable.some THEN input.revocable.v
                      ELSE TRUE]

\* The schema identifier the registry derives for a definition: it depends
\* on the definition, the resolver and the revocable flag.
RegisterRequest(input) ==
  [schema |-> IF input.revocable THEN "sRevocable" ELSE "sIrrevocable",
   revocable |-> input.revocable]

\* The hash as the transaction object carries it, with no placeholder.
TxHashRaw(hash) == IF hash.some THEN hash.v ELSE ""

\* tx.hash || 'unknown'
TxHash(hash) == IF TruthyStr(hash) THEN hash.v ELSE "unknown"

\* await tx.getAttestationUID?.() || 'unknown', for what the call gave.
DerivedUid(derived) == IF TruthyStr(derived) THEN derived.v ELSE "unknown"

\* The handlers' results on success.
IssueSuccess(input, uid, txHash) ==
  [success |-> TRUE, message |-> <<"Attestation issued successfully">>,
   data |-> [uid |-> uid, txHash |-> txHash, schema |-> input.schema]]

CreateSchemaSuccess(input, uid, txHash) ==
  [success |-> TRUE, message |-> <<"Schema created successfully">>,
   data |-> [uid |-> uid, txHash |-> txHash, revocable |-> input.revocable]]

RevokeSuccess(input, txHash) ==
  [success |-> TRUE, message |-> <<"Attestation revoked successfully">>,
   data |-> [uid |-> input.uid, txHash |-> txHash]]

(***************************************************************************)
(* Spec: handler calls against the ledger                                  *)
(***************************************************************************)
\* The handler calls that may be in progress at once.
Calls == {"c1", "c2"}

\* The last second of the clock.
MaxNow == 3

\* The identifiers asked of verify and revoke: the ledger's, one that is
\* never issued, and the placeholder issueAttestation may have returned.
UidInputs ==
  {LedgerUids[i] : i \in 1..Len(LedgerUids)}
  \cup {NeverIssuedUid, "unknown"}

\* expirationTime of an issue input: none, and one the clock reaches.
ExpirationInputs == {None, Some(2)}

IssueInputs ==
  [schema : {"sRevocable"}, expirationTime : ExpirationInputs,
   revocable : {None, Some(FALSE)}]

CreateSchemaInputs == [revocable : BOOLEAN]

\* The input of a list call, and what queryAttestations settles to for it:
\* a failure of the request, or the records found.
SpecListInputs ==
  {[recipient |-> None, attester |-> None, schema |-> None, limit |-> None]}

QueryOutcomes ==
  {QueryCatch("many", e) : e \in FetchErrors} \cup {Return(<<>>)}

\* Errors of the RPC connection, of a refused argument, and of the steps of
\* a transaction: the request is rejected by the contract or the connection
\* fails.
ReadErrors == {Err(<<"could not detect network">>)}

InvalidArgument == Err(<<"invalid BytesLike value">>)

SubmitErrors == {Err(<<"execution reverted">>)} \cup ReadErrors

ConfirmErrors == {Err(<<"transaction execution reverted">>)} \cup ReadErrors

DeriveErrors == {Err(<<"no matching event in the receipt">>)}

\* What the transaction object offers for the identifier: no method, a
\* method that resolves to the identifier or to nothing, one that throws.
Derivations == {"unsupported", "value", "empty", "throws"}

\* getAttestation has not resolved yet.
NotRead == [notRead |-> TRUE]

IdleHandler ==
  [pc |-> "idle", op |-> "none", args |-> NULL, read |-> NotRead,
   request |-> NULL, txHash |-> "", submits |-> 0, cause |-> "none",
   result |-> NULL]

Init ==
  /\ pure = [op |-> "none"]
  /\ Unused(iq)
  /\ privateKeySet \in BOOLEAN
  /\ now = 1
  /\ schemas = {}
  /\ attestations = [u \in {LedgerUids[i] : i \in 1..Len(LedgerUids)} |->
                       EmptyAttestation]
  /\ calls = [c \in Calls |-> IdleHandler]
  /\ hist = [returned |-> {}, revoked |-> {}, reported |-> {}]
  /\ Unused(server)

\* The call c has finished with result r, for the reason cause; the hash
\* the method held is kept in its result only.
Finish(c, cause, r) ==
  calls' = [calls EXCEPT ![c].pc = "done", ![c].cause = cause,
                         ![c].txHash = "", ![c].result = r]

\* A start that asked for the private key in the signing operations only.
BeginKeyForWritesOnly(c, op, input, pc, request) ==
  /\ calls[c].pc = "idle"
  /\ IF ~privateKeySet /\ op \in {"issue", "createSchema", "revoke"}
     THEN calls' = [calls EXCEPT ![c] =
            [IdleHandler EXCEPT !.pc = "done", !.op = op, !.args = input,
               !.cause = "nokey",
               !.result = HandlerFailure(Prefix(op), NoPrivateKey)]]
     ELSE calls' = [calls EXCEPT ![c] =
            [IdleHandler EXCEPT !.pc = pc, !.op = op, !.args = input,
               !.request = request,
               !.submits = IF pc = "awaitSubmit" THEN 1 ELSE 0]]
  /\ UNCHANGED <<server, pure, privateKeySet, iq, now, schemas, attestations, hist>>

\* A handler starts: it constructs the service, which throws without a
\* private key, and the service method runs to its first await.
Begin(c, op, input, pc, request) ==
  /\ calls[c].pc = "idle"
  /\ IF ~privateKeySet
     THEN calls' = [calls EXCEPT ![c] =
            [IdleHandler EXCEPT !.pc = "done", !.op = op, !.args = input,
               !.cause = "nokey",
               !.result = HandlerFailure(Prefix(op), NoPrivateKey)]]
     ELSE calls' = [calls EXCEPT ![c] =
            [IdleHandler EXCEPT !.pc = pc, !.op = op, !.args = input,
               !.request = request,
               !.submits = IF pc = "awaitSubmit" THEN 1 ELSE 0]]
  /\ UNCHANGED <<server, pure, privateKeySet, iq, now, schemas, attestations, hist>>

\* handleVerifyAttestation up to await this.eas.getAttestation(uid).
BeginVerify(c) ==
  \E u \in UidInputs : Begin(c, "verify", [uid |-> u], "awaitRead", NULL)

\* A revocation that waited for every other revocation in progress.
BeginRevokeLocked(c) ==
  /\ \A d \in Calls \ {c} :
       ~(calls[d].op = "revoke" /\ calls[d].pc # "done")
  /\ \E u \in UidInputs : Begin(c, "revoke", [uid |-> u], "awaitRead", NULL)

\* handleRevokeAttestation up to await this.eas.getAttestation(uid).
BeginRevoke(c) ==
  \E u \in UidInputs : Begin(c, "revoke", [uid |-> u], "awaitRead", NULL)

\* handleIssueAttestation up to await this.eas.attest(attestation).
BeginIssue(c) ==
  \E input \in IssueInputs :
    Begin(c, "issue", input, "awaitSubmit", AttestRequest(input))

\* handleCreateSchema up to await schemaRegistry.register(...).
BeginCreateSchema(c) ==
  \E input \in CreateSchemaInputs :
    Begin(c, "createSchema", input, "awaitSubmit", RegisterRequest(input))

\* handleListAttestations up to await graphqlService.queryAttestations(...).
BeginList(c) ==
  \E input \in SpecListInputs :
    Begin(c, "list", input, "awaitIndex", ManyRequest(input))

\* queryAttestations settles: listAttestations returns the records or
\* rethrows, and the handler returns its result.
IndexSettles(c) ==
  /\ calls[c].pc = "awaitIndex"
  /\ \E qres \in QueryOutcomes :
       Finish(c, IF qres.threw THEN "indexFailed" ELSE "index",
              CallerResult("list", qres))
  /\ UNCHANGED <<server, pure, privateKeySet, iq, now, schemas, attestations, hist>>

\* getAttestation resolves.  verify: the service returns null or the
\* converted record and the handler computes the validity with the clock of
\* this moment.  revoke: an absent record throws, a present one is followed
\* by the call of eas.revoke.
ReadReturns(c) ==
  /\ calls[c].pc = "awaitRead"
  /\ IsBytes32(calls[c].args.uid)
  /\ \E rec \in {LedgerRecord(calls[c].args.uid)}
                \cup (IF LedgerRecord(calls[c].args.uid).uid = ZERO_UID
                      THEN {NULL} ELSE {}),
        ms \in {0, 999} :
       IF calls[c].op = "verify"
       THEN LET r == VerifyOutcome(VerifyAttestationOutcome(rec).value,
                                   now * 1000 + ms)
            IN  /\ calls' = [calls EXCEPT ![c].pc = "done",
                               ![c].cause = "read", ![c].read = rec,
                               ![c].result = r]
                /\ hist' = IF r.success /\ r.data.isRevoked
                           THEN [hist EXCEPT !.reported = @ \cup {calls[c].args.uid}]
                           ELSE hist
       ELSE /\ IF RevokeLookupAbsent(rec)
               THEN calls' = [calls EXCEPT ![c].pc = "done",
                                ![c].cause = "absent", ![c].read = rec,
                                ![c].result = FailCall("revoke",
                                   NotFoundError(calls[c].args.uid))]
               ELSE calls' = [calls EXCEPT ![c].pc = "awaitSubmit",
                                ![c].read = rec, ![c].submits = @ + 1,
                                ![c].request =
                                   RevokeRequest(rec, calls[c].args.uid)]
            /\ UNCHANGED hist
  /\ UNCHANGED <<server, pure, privateKeySet, iq, now, schemas, attestations>>

\* getAttestation rejects: the connection fails, or the identifier is no
\* bytes32 value.
ReadFails(c) ==
  /\ calls[c].pc = "awaitRead"
  /\ IF IsBytes32(calls[c].args.uid)
     THEN \E e \in ReadErrors :
            Finish(c, "transport", FailCall(calls[c].op, e))
     ELSE Finish(c, "badArg", FailCall(calls[c].op, InvalidArgument))
  /\ UNCHANGED <<server, pure, privateKeySet, iq, now, schemas, attestations, hist>>

\* attest, revoke or register resolves with the transaction: the contract
\* accepted the request in the node's simulation.
SubmitOk(c) ==
  /\ calls[c].pc = "awaitSubmit"
  /\ Accepted(calls[c].op, calls[c].request)
  /\ \E hash \in {None, Some("0xtx")} :
       calls' = [calls EXCEPT ![c].pc = "awaitConfirm",
                              ![c].txHash = TxHash(hash)]
  /\ UNCHANGED <<server, pure, privateKeySet, iq, now, schemas, attestations, hist>>

\* attest, revoke or register rejects: nothing was submitted.
SubmitFails(c) ==
  /\ calls[c].pc = "awaitSubmit"
  /\ \E e \in SubmitErrors : Finish(c, "submit", FailCall(calls[c].op, e))
  /\ UNCHANGED <<server, pure, privateKeySet, iq, now, schemas, attestations, hist>>

\* The record the contract stores for an accepted attest request.
NewAttestation(uid, req) ==
  [uid |-> uid, schema |-> req.schema, revocable |-> req.revocable,
   time |-> now, expirationTime |-> req.expirationTime, revocationTime |-> 0]

\* What tx.getAttestationUID?.() / tx.getSchemaUID?.() gives for the
\* identifier uid that the transaction created.
Derived(d, uid) ==
  CASE d = "unsupported" -> None
    [] d = "value"       -> Some(uid)
    [] d = "empty"       -> Some("")

\* tx.wait() resolves: the transaction is mined, the contract having
\* accepted it, and the method runs to its end.  issue and createSchema
\* derive the identifier; revoke returns the hash.
ConfirmOk(c) ==
  /\ calls[c].pc = "awaitConfirm"
  /\ Accepted(calls[c].op, calls[c].request)
  /\ LET op  == calls[c].op
         req == calls[c].request
         created == IF op = "issue" THEN NextUid ELSE req.schema
     IN  /\ attestations' =
              CASE op = "issue" ->
                     [attestations EXCEPT ![created] = NewAttestation(created, req)]
                [] op = "revoke" ->
                     [attestations EXCEPT ![req.uid].revocationTime = now]
                [] OTHER -> attestations
         /\ schemas' = IF op = "createSchema" THEN schemas \cup {req.schema}
                       ELSE schemas
         /\ IF op = "revoke"
            THEN /\ Finish(c, "ok", RevokeSuccess(calls[c].args, calls[c].txHash))
                 /\ hist' = [hist EXCEPT !.revoked = @ \cup {req.uid}]
            ELSE \E d \in Derivations :
                   IF d = "throws"
                   THEN /\ \E e \in DeriveErrors :
                             Finish(c, "derive", FailCall(op, e))
                        /\ UNCHANGED hist
                   ELSE LET uid == DerivedUid(Derived(d, created))
                        IN  IF op = "issue"
                            THEN /\ Finish(c, "ok",
                                      IssueSuccess(calls[c].args, uid,
                                                   calls[c].txHash))
                                 /\ hist' = [hist EXCEPT
                                               !.returned = @ \cup {uid}]
                            ELSE /\ Finish(c, "ok",
                                      CreateSchemaSuccess(calls[c].args, uid,
                                                          calls[c].txHash))
                                 /\ UNCHANGED hist
  /\ UNCHANGED <<server, pure, privateKeySet, iq, now>>

\* tx.wait() rejects: the transaction reverted when it was mined.
ConfirmFails(c) ==
  /\ calls[c].pc = "awaitConfirm"
  /\ \E e \in ConfirmErrors : Finish(c, "confirm", FailCall(calls[c].op, e))
  /\ UNCHANGED <<server, pure, privateKeySet, iq, now, schemas, attestations, hist>>

\* The caller has the handler's result.
CallEnds(c) ==
  /\ calls[c].pc = "done"
  /\ calls' = [calls EXCEPT ![c] = IdleHandler]
  /\ UNCHANGED <<server, pure, privateKeySet, iq, now, schemas, attestations, hist>>

\* A second passes.
Tick ==
  /\ now < MaxNow
  /\ now' = now + 1
  /\ UNCHANGED <<server, pure, privateKeySet, iq, schemas, attestations, calls, hist>>

Next ==
  \/ \E c \in Calls :
       \/ BeginVerify(c)
       \/ BeginRevoke(c)
       \/ BeginIssue(c)
       \/ BeginCreateSchema(c)
       \/ BeginList(c)
       \/ IndexSettles(c)
       \/ ReadReturns(c)
       \/ ReadFails(c)
       \/ SubmitOk(c)
       \/ SubmitFails(c)
       \/ ConfirmOk(c)
       \/ ConfirmFails(c)
       \/ CallEnds(c)
  \/ Tick

Spec == Init /\ [][Next]_vars


(***************************************************************************)
(* Claims checked under Spec                                               *)
(***************************************************************************)
\* What the point-read of a call resolved to: no record or the all-zero
\* record, or an attestation.
ReadAbsent(r) == r = NULL \/ (r # NotRead /\ r.uid = ZERO_UID)

ReadPresent(r) == r # NULL /\ r # NotRead /\ r.uid # ZERO_UID

\* The results a revoke or verify call has when its read fails.
ReadFailures(op) == {FailCall(op, e) : e \in ReadErrors \cup {InvalidArgument}}

NotFoundResult(op, uid) ==
  [success |-> FALSE,
   message |-> <<Prefix(op), Prefix(op), "Attestation ", uid, " not found">>,
   data    |-> NULL]

\* C3: a revokeAttestation whose point-read gave no record or the all-zero
\* record has ended in the not-found failure, whose message names the uid
\* and is none of the failures of the read itself, and eas.revoke was not
\* called in it.
C3_RevokeNotFound ==
  \A c \in Calls :
    (calls[c].op = "revoke" /\ ReadAbsent(calls[c].read)) =>
      /\ calls[c].pc = "done"
      /\ calls[c].submits = 0
      /\ calls[c].request = NULL
      /\ calls[c].result = NotFoundResult("revoke", calls[c].args.uid)
      /\ calls[c].result \notin ReadFailures("revoke")

\* C3's case: the revocation of an identifier the ledger has nothing for,
\* ended in the not-found failure without a write.
C3_Witness ==
  \E c \in Calls :
    /\ calls[c].op = "revoke"
    /\ calls[c].pc = "done"
    /\ calls[c].args.uid = NeverIssuedUid
    /\ calls[c].read = EmptyAttestation
    /\ calls[c].submits = 0
    /\ calls[c].result.message =
         <<"Failed to revoke attestation: ", "Failed to revoke attestation: ",
           "Attestation ", NeverIssuedUid, " not found">>

\* C4: a revokeAttestation calls eas.revoke at most once, and exactly when
\* its point-read has returned a present record, whatever that record's
\* revocable flag and revocationTime; the request carries the schema of the
\* record read and the uid of the input; a call whose read failed has made
\* no request and returns the failure of the read.
C4_WriteBoundToRead ==
  \A c \in Calls :
    calls[c].op = "revoke" =>
      /\ calls[c].submits <= 1
      /\ calls[c].submits = 1 <=> ReadPresent(calls[c].read)
      /\ calls[c].submits = 1 =>
           /\ calls[c].read.uid = calls[c].args.uid
           /\ calls[c].request =
                [schema |-> calls[c].read.schema, uid |-> calls[c].args.uid]
      /\ (calls[c].pc = "done" /\ calls[c].read = NotRead /\ privateKeySet) =>
           /\ calls[c].request = NULL
           /\ calls[c].result \in ReadFailures("revoke")

\* C4's case: the write of a revocation whose read returned a record that was
\* revoked already.
C4_Witness ==
  \E c \in Calls :
    /\ calls[c].op = "revoke"
    /\ calls[c].pc = "awaitSubmit"
    /\ calls[c].submits = 1
    /\ calls[c].read.revocationTime > 0
    /\ calls[c].request =
         [schema |-> "sRevocable", uid |-> calls[c].args.uid]

\* The step in which the point-read of a verification settles.
VerifyEnds(c) ==
  /\ calls[c].op = "verify"
  /\ calls[c].pc = "awaitRead"
  /\ calls'[c].pc = "done"

\* C5: a verification of uid whose read returns after a successful
\* revokeAttestation(uid), or after a verification that reported
\* isRevoked = true for uid, finds the record and reports isRevoked = true
\* and isValid = false.
C5_RevokedStaysRevoked ==
  [][\A c \in Calls :
       (/\ VerifyEnds(c)
        /\ calls'[c].read # NotRead
        /\ calls[c].args.uid \in hist.revoked \cup hist.reported) =>
         /\ calls'[c].result.success
         /\ calls'[c].result.data.isRevoked
         /\ ~calls'[c].result.data.isValid]_vars

\* C5's case: a verification that reports the revocation at a later second
\* than that of the successful revocation.
C5_Witness ==
  \E c \in Calls :
    /\ calls[c].op = "verify"
    /\ calls[c].pc = "done"
    /\ calls[c].args.uid \in hist.revoked
    /\ calls[c].result.success
    /\ calls[c].result.data.isRevoked
    /\ ~calls[c].result.data.isValid
    /\ calls[c].result.data.revocationTime < now

ReportsValid(r) ==
  /\ r.success
  /\ r.data.isValid
  /\ ~r.data.isRevoked
  /\ ~r.data.isExpired

\* C6 as stated: a verification of an identifier that a successful
\* issueAttestation returned, with no revocation before it and no failure of
\* the connection, finds the record and reports it valid, not revoked and
\* not expired.
C6_IssuedVerifiesValid ==
  [][\A c \in Calls :
       (/\ VerifyEnds(c)
        /\ calls'[c].cause # "transport"
        /\ calls[c].args.uid \in hist.returned \ hist.revoked) =>
         ReportsValid(calls'[c].result)]_vars

\* C6 amended: the same for an identifier that was derived, not the
\* placeholder, and a verification evaluated no later than the expiration
\* of the attestation, if it has one.
C6_DerivedUidVerifiesValidUntilExpiry ==
  [][\A c \in Calls :
       (/\ VerifyEnds(c)
        /\ calls'[c].cause # "transport"
        /\ calls[c].args.uid \in hist.returned \ hist.revoked
        /\ calls[c].args.uid # "unknown"
        /\ \/ LedgerRecord(calls[c].args.uid).expirationTime = 0
           \/ LedgerRecord(calls[c].args.uid).expirationTime >= now) =>
         ReportsValid(calls'[c].result)]_vars

\* C6's case: the verification, in the second of its expiration, of an
\* attestation that was issued and not revoked.
C6_Witness ==
  \E c \in Calls :
    /\ calls[c].op = "verify"
    /\ calls[c].pc = "done"
    /\ calls[c].args.uid \in hist.returned \ hist.revoked
    /\ now = 2
    /\ calls[c].result.success
    /\ calls[c].result.data.expirationTime = 2
    /\ calls[c].result.data.time = 1
    /\ calls[c].result.data.isValid

AbsentResult ==
  [success |-> FALSE, message |-> <<"Attestation not found">>, data |-> NULL]

\* C7: a verification whose read returns for an identifier the ledger has no
\* attestation of ends in the absent result; a verification whose read fails
\* ends in a 'Failed to verify attestation: ' result, which is another one.
C7_NeverIssuedIsAbsent ==
  [][\A c \in Calls :
       VerifyEnds(c) =>
         /\ (/\ calls'[c].read # NotRead
             /\ LedgerRecord(calls[c].args.uid).uid = ZERO_UID) =>
              calls'[c].result = AbsentResult
         /\ calls'[c].read = NotRead =>
              /\ calls'[c].result \in ReadFailures("verify")
              /\ calls'[c].result.message[1] = "Failed to verify attestation: "
              /\ calls'[c].result # AbsentResult]_vars

\* C7's case: the verification of an identifier that was never issued, ended
\* in the absent result.
C7_Witness ==
  \E c \in Calls :
    /\ calls[c].op = "verify"
    /\ calls[c].pc = "done"
    /\ calls[c].args.uid = NeverIssuedUid
    /\ calls[c].read = EmptyAttestation
    /\ calls[c].result = AbsentResult

\* The message of the failure result of a handler whose service method
\* caught the error e.
FailureMessage(op, e) == <<Prefix(op), Prefix(op)>> \o e.message

WriteOps == {"issue", "createSchema", "revoke"}

\* C17: a createSchema or issueAttestation whose transaction was confirmed
\* returns a success result; when the derivation of the identifier threw,
\* the identifier in it is "unknown".
C17_DerivationFailureGivesUnknown ==
  \A c \in Calls :
    (/\ calls[c].op \in {"issue", "createSchema"}
     /\ calls[c].pc = "done"
     /\ calls[c].cause \in {"ok", "derive"}) =>
      /\ calls[c].result.success
      /\ calls[c].result.data.txHash \in {"0xtx", "unknown"}
      /\ calls[c].cause = "derive" => calls[c].result.data.uid = "unknown"

\* C18: in a write call the confirmation is awaited only once the submission
\* has returned a transaction, the identifier is extracted and a success
\* result returned only once the confirmation wait has completed, and a
\* failed confirmation ends the call in a failure, with nothing extracted or
\* changed.
C18_PhaseOrder ==
  [][\A c \in Calls :
       calls'[c].op \in WriteOps =>
         /\ (calls'[c].pc = "awaitConfirm" /\ calls[c].pc # "awaitConfirm") =>
              /\ calls[c].pc = "awaitSubmit"
              /\ calls[c].op = calls'[c].op
              /\ calls'[c].txHash # ""
         /\ (/\ calls'[c].pc = "done" /\ calls[c].pc # "done"
             /\ \/ calls'[c].result.success
                \/ calls'[c].cause \in {"ok", "derive"}) =>
              calls[c].pc = "awaitConfirm"
         /\ (/\ calls'[c].pc = "done" /\ calls[c].pc # "done"
             /\ calls'[c].cause = "confirm") =>
              /\ calls[c].pc = "awaitConfirm"
              /\ ~calls'[c].result.success
              /\ calls'[c].result.data = NULL
              /\ hist' = hist]_vars

\* C18's case: an issue call that went through submission, confirmation and
\* extraction.
C18_Witness ==
  \E c \in Calls :
    /\ calls[c].op = "issue"
    /\ calls[c].pc = "done"
    /\ calls[c].cause = "ok"
    /\ calls[c].submits = 1
    /\ calls[c].result.success
    /\ calls[c].result.data.uid = LedgerUids[1]
    /\ calls[c].result.data.txHash = "0xtx"

\* C19: a write call submits at most one transaction, and one whose
\* submission or confirmation failed has ended in the failure of that step,
\* having submitted once.
C19_NoRetry ==
  \A c \in Calls :
    calls[c].op \in WriteOps =>
      /\ calls[c].submits <= 1
      /\ calls[c].pc = "awaitConfirm" => calls[c].submits = 1
      /\ (calls[c].pc = "done" /\ calls[c].cause = "submit") =>
           /\ calls[c].submits = 1
           /\ ~calls[c].result.success
           /\ \E e \in SubmitErrors :
                calls[c].result.message = FailureMessage(calls[c].op, e)
      /\ (calls[c].pc = "done" /\ calls[c].cause = "confirm") =>
           /\ calls[c].submits = 1
           /\ ~calls[c].result.success
           /\ \E e \in ConfirmErrors :
                calls[c].result.message = FailureMessage(calls[c].op, e)

\* C19's case: an issue call whose transaction reverted when it was mined,
\* ended in that failure after one submission.
C19_Witness ==
  \E c \in Calls :
    /\ calls[c].op = "issue"
    /\ calls[c].pc = "done"
    /\ calls[c].cause = "confirm"
    /\ calls[c].submits = 1
    /\ calls[c].result.message =
         <<"Failed to issue attestation: ", "Failed to issue attestation: ",
           "transaction execution reverted">>

\* The failure results of a write call that has submitted no transaction:
\* its read or its submission was rejected.
NothingSubmittedFailures(op) ==
  {FailCall(op, e) : e \in SubmitErrors \cup ReadErrors \cup {InvalidArgument}}

\* C20: the failure result of a write call whose confirmation failed is none
\* of the results the call has when no transaction was submitted.
C20_ConfirmFailureDistinct ==
  \A c \in Calls :
    (/\ calls[c].op \in WriteOps
     /\ calls[c].pc = "done"
     /\ calls[c].cause = "confirm") =>
      calls[c].result \notin NothingSubmittedFailures(calls[c].op)

\* The causes with which a call ends because the construction of the
\* service or the service method threw.
ThrowCauses ==
  {"nokey", "indexFailed", "absent", "transport", "badArg", "submit",
   "confirm", "derive"}

\* The messages of the errors that the construction of the service or the
\* service method of the finished call c may have thrown, by the step that
\* failed.
ThrownMessages(c) ==
  LET op == calls[c].op
      Rethrown(errors) == {<<Prefix(op)>> \o e.message : e \in errors}
  IN  CASE calls[c].cause = "nokey" ->
             {<<"PRIVATE_KEY environment variable not set">>}
        [] calls[c].cause = "indexFailed" ->
             {<<Prefix(op), "GraphQL query failed: ">> \o e.message :
                e \in FetchErrors}
        [] calls[c].cause = "absent" ->
             {<<Prefix(op), "Attestation ", calls[c].args.uid, " not found">>}
        [] calls[c].cause = "transport" -> Rethrown(ReadErrors)
        [] calls[c].cause = "badArg" ->
             {<<Prefix(op), "invalid BytesLike value">>}
        [] calls[c].cause = "submit" -> Rethrown(SubmitErrors)
        [] calls[c].cause = "confirm" -> Rethrown(ConfirmErrors)
        [] calls[c].cause = "derive" -> Rethrown(DeriveErrors)
        [] OTHER -> {}

\* C21: every handler call ends with a result; when the construction of the
\* service or the service method threw an Error with message m the result is
\* exactly {success: false, message: 'Failed to <operation>: ' + m,
\* data: null}, and a result with success: true comes only from a service
\* method that completed without throwing.
C21_HandlersWrapEveryError ==
  \A c \in Calls :
    calls[c].pc = "done" =>
      /\ calls[c].result # NULL
      /\ calls[c].cause \in ThrowCauses =>
           \E m \in ThrownMessages(c) :
             calls[c].result =
               [success |-> FALSE,
                message |-> <<Prefix(calls[c].op)>> \o m,
                data    |-> NULL]
      /\ calls[c].result.success => calls[c].cause \in {"ok", "read", "index"}

\* C21's case: a createSchema call whose registration was rejected, ended in
\* the wrapped failure.
C21_Witness ==
  \E c \in Calls :
    /\ calls[c].op = "createSchema"
    /\ calls[c].pc = "done"
    /\ calls[c].cause = "submit"
    /\ calls[c].result =
         [success |-> FALSE,
          message |-> <<"Failed to create schema: ",
                        "Failed to create schema: ", "execution reverted">>,
          data    |-> NULL]

\* C23: the result of every successful createSchema and issueAttestation
\* carries a non-empty identifier and a non-empty transaction hash.
C23_IdentifierAndHashNonEmpty ==
  \A c \in Calls :
    (/\ calls[c].op \in {"issue", "createSchema"}
     /\ calls[c].pc = "done"
     /\ calls[c].result.success) =>
      /\ calls[c].result.data.uid # ""
      /\ calls[c].result.data.txHash # ""

\* C23's case: a createSchema call succeeded although the transaction object
\* carried no hash and derived an empty identifier.
C23_Witness ==
  \E c \in Calls :
    /\ calls[c].op = "createSchema"
    /\ calls[c].pc = "done"
    /\ calls[c].cause = "ok"
    /\ calls[c].result.success
    /\ calls[c].result.data.uid = "unknown"
    /\ calls[c].result.data.txHash = "unknown"

\* C24: every verification compares the expiration with the clock of the
\* moment its read returns: for a record with expirationTime = e > 0 and
\* revocationTime = 0 it reports isExpired = false while now <= e, and
\* isExpired = true and isValid = false once now > e, whatever an earlier
\* verification in the same process reported.
C24_ExpiryUsesCurrentClock ==
  [][\A c \in Calls :
       (/\ VerifyEnds(c)
        /\ calls'[c].result.success
        /\ calls'[c].result.data.expirationTime > 0
        /\ calls'[c].result.data.revocationTime = 0) =>
         LET e == calls'[c].result.data.expirationTime
             r == calls'[c].result.data
         IN  /\ now <= e => (~r.isExpired /\ r.isValid)
             /\ now > e => (r.isExpired /\ ~r.isValid)]_vars

\* C24's case: two verifications of one attestation in the same process, the
\* earlier one evaluated before its expiration and the later one after it.
C24_Witness ==
  \E c \in Calls, d \in Calls :
    /\ c # d
    /\ calls[c].op = "verify" /\ calls[d].op = "verify"
    /\ calls[c].pc = "done" /\ calls[d].pc = "done"
    /\ calls[c].args.uid = calls[d].args.uid
    /\ calls[c].result.success /\ calls[d].result.success
    /\ calls[c].result.data.expirationTime = 2
    /\ calls[d].result.data.expirationTime = 2
    /\ calls[c].result.data.revocationTime = 0
    /\ calls[d].result.data.revocationTime = 0
    /\ ~calls[c].result.data.isExpired /\ calls[c].result.data.isValid
    /\ calls[d].result.data.isExpired /\ ~calls[d].result.data.isValid
    /\ now = 3

\* C26: revokeAttestation takes no lock and does not look at the record
\* again after its read: a revocation can start whatever the other call is
\* doing, its read can return while the other call's write is unconfirmed,
\* and a call that read a present record has submitted its revocation, for
\* the identifier it was given, whatever the record has become since.
C26_RevokeNotAtomic ==
  \A c \in Calls :
    /\ calls[c].pc = "idle" => ENABLED BeginRevoke(c)
    /\ (/\ calls[c].op = "revoke"
        /\ calls[c].pc = "awaitRead"
        /\ IsBytes32(calls[c].args.uid)) => ENABLED ReadReturns(c)
    /\ (calls[c].op = "revoke" /\ ReadPresent(calls[c].read)) =>
         /\ calls[c].submits = 1
         /\ calls[c].cause # "absent"
         /\ calls[c].request.uid = calls[c].args.uid

\* C26's case: two revocations of one identifier have both read the
\* unrevoked record and both submitted a revocation transaction, neither
\* being confirmed yet.
C26_Witness ==
  \E c \in Calls, d \in Calls :
    /\ c # d
    /\ calls[c].op = "revoke" /\ calls[d].op = "revoke"
    /\ calls[c].args.uid = calls[d].args.uid
    /\ calls[c].pc = "awaitConfirm" /\ calls[d].pc = "awaitConfirm"
    /\ calls[c].read.revocationTime = 0 /\ calls[d].read.revocationTime = 0
    /\ calls[c].submits = 1 /\ calls[d].submits = 1
    /\ LedgerRecord(calls[c].args.uid).revocationTime = 0

\* C30: without PRIVATE_KEY every handler call, those of list and verify
\* included, ends at once with {success: false, message: 'Failed to
\* <operation>: PRIVATE_KEY environment variable not set', data: null}: it
\* has sent no index request, read nothing, submitted nothing, and the
\* ledger is as it was.
C30_NoKeyNoCall ==
  ~privateKeySet =>
    /\ schemas = {}
    /\ \A u \in DOMAIN attestations : attestations[u] = EmptyAttestation
    /\ \A c \in Calls :
         /\ calls[c].pc \in {"idle", "done"}
         /\ calls[c].pc = "done" =>
              /\ calls[c].result =
                   [success |-> FALSE,
                    message |-> <<Prefix(calls[c].op),
                                  "PRIVATE_KEY environment variable not set">>,
                    data    |-> NULL]
              /\ calls[c].request = NULL
              /\ calls[c].read = NotRead
              /\ calls[c].submits = 0

\* C30's case: without the key, a list call and a verify call have both
\* ended in the failure of the service's construction.
C30_Witness ==
  /\ ~privateKeySet
  /\ \E c \in Calls, d \in Calls :
       /\ calls[c].op = "list" /\ calls[d].op = "verify"
       /\ calls[c].pc = "done" /\ calls[d].pc = "done"
       /\ calls[c].result.message =
            <<"Failed to list attestations: ",
              "PRIVATE_KEY environment variable not set">>
       /\ calls[d].result.message =
            <<"Failed to verify attestation: ",
              "PRIVATE_KEY environment variable not set">>
       /\ calls[c].request = NULL /\ calls[d].read = NotRead

(***************************************************************************)
(* The server's tool-call handler                                          *)
(***************************************************************************)
\* The values a caller may put in an argument, as the request carries them.
JValue(type, text) == [type |-> type, v |-> text]

JStr(text) == JValue("string", text)

\* One field of a z.object schema.
Required(name, type) == [name |-> name, type |-> type, required |-> TRUE]

Optional(name, type) == [name |-> name, type |-> type, required |-> FALSE]

\* The schema the switch statement parses the arguments of a tool with.
ToolSchema(name) ==
  CASE name = "issue-attestation" ->
         <<Required("network", "enum"), Required("recipient", "string"),
           Required("schema", "string"), Required("data", "string"),
           Optional("expirationTime", "number"),
           Optional("revocable", "boolean"), Optional("refUID", "string"),
           Optional("value", "string")>>
    [] name = "verify-attestation" ->
         <<Required("network", "enum"), Required("uid", "string")>>
    [] name = "list-attestations" ->
         <<Required("network", "enum"), Optional("recipient", "string"),
           Optional("attester", "string"), Optional("schema", "string"),
           Optional("limit", "number")>>
    [] name = "create-schema" ->
         <<Required("network", "enum"), Required("schema", "string"),
           Optional("resolverAddress", "string"),
           Required("revocable", "boolean")>>
    [] name = "revoke-attestation" ->
         <<Required("network", "enum"), Required("uid", "string")>>

\* The cases of the switch statement.
Tools ==
  {"issue-attestation", "verify-attestation", "list-attestations",
   "create-schema", "revoke-attestation"}

\* The handler a case calls, by the operation it performs.
ToolOp(name) ==
  CASE name = "issue-attestation"  -> "issue"
    [] name = "verify-attestation" -> "verify"
    [] name = "list-attestations"  -> "list"
    [] name = "create-schema"      -> "createSchema"
    [] name = "revoke-attestation" -> "revoke"

\* Whether the value val passes the field type: z.enum(['testnet',
\* 'mainnet']), z.string(), z.number() or z.boolean().
Matches(type, val) ==
  IF type = "enum"
  THEN val.type = "string" /\ val.v \in {"testnet", "mainnet"}
  ELSE val.type = type

\* The fields of the schema that the arguments fail: a required one that is
\* missing, or one that is there with a value of another type.
Issues(schema, fields) ==
  SelectSeq(schema,
            LAMBDA f : IF f.name \in DOMAIN fields
                       THEN ~Matches(f.type, fields[f.name])
                       ELSE f.required)

FieldNames(schema) == {schema[i].name : i \in 1..Len(schema)}

IssueNames(issues) == [i \in 1..Len(issues) |-> issues[i].name]

\* Schema.parse with types only, tolerating missing fields.
ParsePresentOnly(schema, args) ==
  IF ~args.some
  THEN Throw(<<"ZodError: ", "Required">>)
  ELSE LET issues == SelectSeq(schema,
                       LAMBDA f : /\ f.name \in DOMAIN args.v
                                  /\ ~Matches(f.type, args.v[f.name]))
       IN  IF issues # <<>>
           THEN Throw(<<"ZodError: ">> \o IssueNames(issues))
           ELSE Return([f \in FieldNames(schema) \cap DOMAIN args.v |->
                          args.v[f]])

\* Schema.parse(args): throws a ZodError that lists the failing fields, or
\* returns the declared fields that are present; any other key is dropped.
Parse(schema, args) ==
  IF ~args.some
  THEN Throw(<<"ZodError: ", "Required">>)
  ELSE IF Issues(schema, args.v) # <<>>
  THEN Throw(<<"ZodError: ">> \o IssueNames(Issues(schema, args.v)))
  ELSE Return([f \in FieldNames(schema) \cap DOMAIN args.v |-> args.v[f]])

\* The try block up to the call of the handler: the arguments parsed for
\* the handler of a known tool, or what was thrown.
Dispatch(name, args) ==
  IF name \in Tools
  THEN Parse(ToolSchema(name), args)
  ELSE Throw(<<"Unknown tool: ", name>>)

\* JSON.stringify(result, null, 2) of a handler's result or of the catch
\* block's object, the data abbreviated.
JsonStringify(r) ==
  <<"{ \"success\": ", IF r.success THEN "true" ELSE "false",
    ", \"message\": \"">> \o r.message
  \o <<"\", \"data\": ", IF r.data = NULL THEN "null" ELSE "{...}", " }">>

\* A response that is flagged whenever the result is a failure.
ToolResponseFlagFailures(result) ==
  [content |-> <<[type |-> "text", text |-> JsonStringify(result)]>>,
   isError |-> ~result.success]

\* The response of a case of the switch: the handler's result as text.
\* isError = FALSE stands for the absent field.
ToolResponse(result) ==
  [content |-> <<[type |-> "text", text |-> JsonStringify(result)]>>,
   isError |-> FALSE]

\* The response of the catch block.
CatchResponse(e) ==
  [content |->
     <<[type |-> "text",
        text |-> JsonStringify(
                   [success |-> FALSE,
                    message |-> <<"Tool execution failed: ">>
                                \o ErrorMessage(e, "Unknown error occurred"),
                    data    |-> NULL])]>>,
   isError |-> TRUE]

(***************************************************************************)
(* SpecServer: one tool call at a time                                     *)
(***************************************************************************)
\* Arguments that pass the schema of the tool.
ValidArgs(name) ==
  CASE name = "issue-attestation" ->
         [network |-> JStr("testnet"), recipient |-> JStr("x"),
          schema |-> JStr("x"), data |-> JStr("x")]
    [] name = "verify-attestation" ->
         [network |-> JStr("testnet"), uid |-> JStr("x")]
    [] name = "list-attestations" -> [network |-> JStr("mainnet")]
    [] name = "create-schema" ->
         [network |-> JStr("testnet"), schema |-> JStr("x"),
          revocable |-> JValue("boolean", "true")]
    [] name = "revoke-attestation" ->
         [network |-> JStr("testnet"), uid |-> JStr("x")]

\* The arguments drawn for a tool: none at all, the valid ones, the valid
\* ones without one field, and the valid ones with one field (a declared
\* one or an undeclared one) set to each sample value.
RawArgs(name) ==
  LET valid == ValidArgs(name)
      SampleValues ==
        {JStr("x"), JStr("mainnet"), JValue("number", "1"),
         JValue("boolean", "true"), JValue("null", "null")}
      WithField(f, val) ==
        [g \in DOMAIN valid \cup {f} |-> IF g = f THEN val ELSE valid[g]]
      WithoutField(f) == [g \in DOMAIN valid \ {f} |-> valid[g]]
  IN  {None, Some(valid)}
      \cup {Some(WithoutField(f)) : f \in DOMAIN valid}
      \cup {Some(WithField(f, val)) :
              f \in FieldNames(ToolSchema(name)) \cup {"extra"},
              val \in SampleValues}

\* What the handler of op may return: the failure of the construction
\* without a private key; otherwise a failure of the service method or a
\* result.
HandlerResults(op) ==
  IF ~privateKeySet
  THEN {HandlerFailure(Prefix(op), NoPrivateKey)}
  ELSE {FailCall(op, e) : e \in ReadErrors}
       \cup CASE op = "issue" ->
                   {IssueSuccess([schema |-> "sRevocable"], LedgerUids[1],
                                 "0xtx")}
              [] op = "verify" ->
                   {VerifyOutcome(NULL, 0),
                    VerifyOutcome(
                      ToAttestationData(
                        [uid |-> LedgerUids[1], schema |-> "sRevocable",
                         revocable |-> TRUE, time |-> 1,
                         expirationTime |-> 0, revocationTime |-> 0]),
                      1000)}
              [] op = "list" -> {HandleListOutcome(Return(<<>>))}
              [] op = "createSchema" ->
                   {CreateSchemaSuccess([revocable |-> TRUE], "sRevocable",
                                        "0xtx")}
              [] op = "revoke" ->
                   {RevokeSuccess([uid |-> LedgerUids[1]], "0xtx")}

\* No tool call is being answered.
IdleServer ==
  [pc |-> "idle", name |-> "", args |-> None, parsed |-> None,
   invoked |-> FALSE, handlerResult |-> NULL, response |-> NULL]

InitServer ==
  /\ server = IdleServer
  /\ privateKeySet \in BOOLEAN
  /\ pure = [op |-> "none"]
  /\ Unused(iq)
  /\ Unused(now) /\ Unused(schemas) /\ Unused(attestations)
  /\ Unused(calls) /\ Unused(hist)

\* A tool call arrives: the name is switched on and the arguments are
\* parsed; the handler is called with the parsed arguments, or the catch
\* block answers.
ToolCall ==
  /\ server.pc = "idle"
  /\ \E name \in Tools \cup {"delete-attestation", "issue"} :
       \E args \in IF name \in Tools THEN RawArgs(name)
                   ELSE {None, Some(ValidArgs("verify-attestation"))} :
         LET d == Dispatch(name, args)
         IN  IF d.threw
             THEN server' = [IdleServer EXCEPT
                               !.pc = "responded", !.name = name,
                               !.args = args,
                               !.response = CatchResponse(d)]
             ELSE server' = [IdleServer EXCEPT
                               !.pc = "inHandler", !.name = name,
                               !.args = args, !.parsed = Some(d.value),
                               !.invoked = TRUE]
  /\ UNCHANGED <<pure, privateKeySet, iq, ledgerVars>>

\* The handler returns its result (it never throws) and the case returns
\* the response.
HandlerReturns ==
  /\ server.pc = "inHandler"
  /\ \E r \in HandlerResults(ToolOp(server.name)) :
       server' = [server EXCEPT !.pc = "responded", !.handlerResult = r,
                                !.response = ToolResponse(r)]
  /\ UNCHANGED <<pure, privateKeySet, iq, ledgerVars>>

\* The response is sent; the next call may arrive.
ResponseSent ==
  /\ server.pc = "responded"
  /\ server' = IdleServer
  /\ UNCHANGED <<pure, privateKeySet, iq, ledgerVars>>

NextServer == ToolCall \/ HandlerReturns \/ ResponseSent

SpecServer == InitServer /\ [][NextServer]_vars

(***************************************************************************)
(* Claims about the tool-call handler (under SpecServer)                   *)
(***************************************************************************)
\* The fields the tool's schema requires, and those it declares.
RequiredArgs(name) ==
  CASE name = "issue-attestation" -> {"network", "recipient", "schema", "data"}
    [] name = "list-attestations" -> {"network"}
    [] name = "create-schema" -> {"network", "schema", "revocable"}
    [] OTHER -> {"network", "uid"}

DeclaredArgs(name) ==
  RequiredArgs(name)
  \cup CASE name = "issue-attestation" ->
              {"expirationTime", "revocable", "refUID", "value"}
         [] name = "list-attestations" ->
              {"recipient", "attester", "schema", "limit"}
         [] name = "create-schema" -> {"resolverAddress"}
         [] OTHER -> {}

\* Whether a value has the type its field is declared with.
WellTyped(f, val) ==
  CASE f = "network" -> val \in {JStr("testnet"), JStr("mainnet")}
    [] f \in {"expirationTime", "limit"} -> val.type = "number"
    [] f = "revocable" -> val.type = "boolean"
    [] OTHER -> val.type = "string"

\* The arguments of the call fail the schema of the tool.
FailsValidation(name, args) ==
  \/ ~args.some
  \/ \E f \in RequiredArgs(name) : f \notin DOMAIN args.v
  \/ \E f \in DeclaredArgs(name) \cap DOMAIN args.v : ~WellTyped(f, args.v[f])

\* The call is one the server refuses: an unknown tool, or arguments that
\* fail validation.
Refused ==
  \/ server.name \notin Tools
  \/ FailsValidation(server.name, server.args)

\* C22: a call of an unknown tool or with arguments that fail validation
\* never reaches a handler: it is answered at once with isError: true and
\* the text of {success: false, message: 'Tool execution failed: ...',
\* data: null}.
C22_RefusedBeforeHandler ==
  (server.pc # "idle" /\ Refused) =>
    /\ server.pc = "responded"
    /\ ~server.invoked
    /\ server.handlerResult = NULL
    /\ server.response.isError
    /\ Len(server.response.content) = 1
    /\ LET text == server.response.content[1].text
       IN  /\ SubSeq(text, 1, 4) =
                <<"{ \"success\": ", "false", ", \"message\": \"",
                  "Tool execution failed: ">>
           /\ SubSeq(text, Len(text) - 2, Len(text)) =
                <<"\", \"data\": ", "null", " }">>

\* C22's case: a create-schema call whose revocable flag is a string was
\* answered by the catch block, no handler having run.
C22_Witness ==
  /\ server.pc = "responded"
  /\ server.name = "create-schema"
  /\ server.args.some
  /\ DOMAIN server.args.v = {"network", "schema", "revocable"}
  /\ server.args.v["revocable"] = JStr("x")
  /\ ~server.invoked
  /\ server.response.isError
  /\ server.response.content[1].text =
       <<"{ \"success\": ", "false", ", \"message\": \"",
         "Tool execution failed: ", "ZodError: ", "revocable",
         "\", \"data\": ", "null", " }">>

\* C29: every tool call is answered with one text content; the answer has
\* isError: true exactly when the tool is unknown or the validation of the
\* arguments threw, and a handler's failure result is returned as text
\* without isError.
C29_IsErrorOnlyForRefusedCalls ==
  server.pc = "responded" =>
    /\ server.response # NULL
    /\ Len(server.response.content) = 1
    /\ server.response.content[1].type = "text"
    /\ server.response.isError <=> Refused
    /\ server.response.isError <=> ~server.invoked
    /\ (server.invoked /\ ~server.handlerResult.success) =>
         /\ ~server.response.isError
         /\ server.response.content[1].text[2] = "false"
         /\ server.response.content[1].text[4] # "Tool execution failed: "

\* C29's case: a verify call whose handler failed for want of the private
\* key was answered with that failure as text and no isError.
C29_Witness ==
  /\ server.pc = "responded"
  /\ server.name = "verify-attestation"
  /\ server.invoked
  /\ ~server.handlerResult.success
  /\ ~server.response.isError
  /\ server.response.content[1].text =
       <<"{ \"success\": ", "false", ", \"message\": \"",
         "Failed to verify attestation: ",
         "PRIVATE_KEY environment variable not set",
         "\", \"data\": ", "null", " }">>

====
